---------------------------- MODULE Spec2Model ----------------------------
(***************************************************************************)
(* DermaLogic: the environmental decision engine (core/algorithme.py),     *)
(* the history store (core/historique.py), the cache (core/cache.py) and   *)
(* the product value object (core/models.py, core/algorithme.py).          *)
(*                                                                         *)
(* Object references are modelled by positions: a product of the working   *)
(* set, of a bucket or of the excluded list is the index of that object in *)
(* produits_originaux.  An Optional value is a sequence: <<>> is None and  *)
(* <<x>> is the value x.                                                   *)
(***************************************************************************)
EXTENDS Integers, Sequences, FiniteSets, TLC

VARIABLES
    \* ---- MoteurDecision --------------------------------------------------
    produits_originaux,   \* MoteurDecision.produits_originaux
    conditions,           \* the ConditionsEnvironnementales of the last analyser call
    apres_uv,             \* local produits_actifs after stage A (line 280)
    apres_texture,        \* local produits_actifs after stage B (line 303)
    resultat,             \* the ResultatDecision returned by analyser
    etape,                \* "construit" after __init__, "analyse" after analyser
    \* ---- GestionnaireHistorique -----------------------------------------
    horloge,              \* datetime.now(), in days
    fichier_recentes,     \* content of analyses_recentes.json
    fichier_archives,     \* content of analyses_archives.json
    analyses_recentes,    \* GestionnaireHistorique.analyses_recentes
    analyses_archives,    \* GestionnaireHistorique.analyses_archives
    op,                   \* the last operation performed on the store
    retour,               \* the value that operation returned
    sortie,               \* what _rotation_analyses printed during it
    \* ---- GestionnaireCache ----------------------------------------------
    minute,               \* datetime.now(), in minutes
    fichiers_cache,       \* content of the three files of dossier_cache
    journal,              \* for each file, what the callers have done to it
    op_cache,             \* the last method called on the cache
    cle_cache,            \* the file that method is about
    retour_cache,         \* the value it returned
    erreur_cache,         \* the exception it raised, "" when it returned
    \* ---- two GestionnaireHistorique on one directory --------------------
    horloge_duo,          \* datetime.now(), in days
    fichiers_duo,         \* content of the two files of the directory
    instances,            \* the two lists of each instance, and where its
                          \* ajouter_analyse call stands
    ignorees,             \* for each instance, the entries the other one
                          \* appended since this one loaded the files
    ecrasees,             \* the entries the last write took out of the file
    op_duo,               \* the last step: its name and its instance
    \* ---- ProduitDerma ---------------------------------------------------
    classe,               \* the module whose ProduitDerma is used
    entree,               \* the arguments of the last construction or the
                          \* dictionary of the last depuis_dict
    produit,              \* the product made, None if the call raised
    dict_produit,         \* produit.vers_dict(), None before it is called
    relu,                 \* ProduitDerma.depuis_dict(dict_produit)
    erreur_produit,       \* the exception of the last call, "" if none
    op_produit,           \* the last call
    \* ---- AnalyseurDerma -------------------------------------------------
    historique,           \* the entries held by AnalyseurDerma.historique
    appels_ia,            \* how many times analyser has been called
    mode_ia,              \* the mode of the last analyser call
    historique_recent,    \* the historique_recent it passed to analyser_routine
    resultat_ia,          \* the dictionary it returned, None before any call
    op_ia                 \* the last call

moteurVars == <<produits_originaux, conditions, apres_uv, apres_texture, resultat, etape>>

histVars == <<horloge, fichier_recentes, fichier_archives, analyses_recentes,
              analyses_archives, op, retour, sortie>>

cacheVars == <<minute, fichiers_cache, journal, op_cache, cle_cache,
               retour_cache, erreur_cache>>

duoVars == <<horloge_duo, fichiers_duo, instances, ignorees, ecrasees, op_duo>>

produitVars == <<classe, entree, produit, dict_produit, relu, erreur_produit,
                 op_produit>>

analyseurVars == <<historique, appels_ia, mode_ia, historique_recent,
                   resultat_ia, op_ia>>

\* The variables a subsystem leaves alone.
horsMoteur == <<histVars, cacheVars, duoVars, produitVars, analyseurVars>>
horsHist == <<moteurVars, cacheVars, duoVars, produitVars, analyseurVars>>
horsCache == <<moteurVars, histVars, duoVars, produitVars, analyseurVars>>
horsDuo == <<moteurVars, histVars, cacheVars, produitVars, analyseurVars>>
horsProduit == <<moteurVars, histVars, cacheVars, duoVars, analyseurVars>>
horsAnalyseur == <<moteurVars, histVars, cacheVars, duoVars, produitVars>>

vars == <<moteurVars, histVars, cacheVars, duoVars, produitVars, analyseurVars>>

Aucun == <<>>
Quelque(x) == <<x>>

-----------------------------------------------------------------------------
(* Constants and enumerations of core/algorithme.py                        *)

SEUIL_UV_CRITIQUE == 3
SEUIL_HUMIDITE_BASSE == 45
SEUIL_HUMIDITE_HAUTE == 70
SEUIL_PM25_POLLUTION == 25

Categorie == {"cleanser", "treatment", "moisturizer", "protection"}
ActiveTag == {"acne", "hydration", "repair"}
MomentUtilisation == {"matin", "journee", "soir", "tous"}

RAISON_UV == "Photosensible + UV eleve"
RAISON_HUMIDITE == "Trop occlusif (humidite elevee)"

\* Mutant: __post_init__ validates occlusivity alone.
PostInitOcclusiviteSeule(p) ==
    /\ 1 <= p.occlusivity /\ p.occlusivity <= 5

\* ProduitDerma.__post_init__: the ratings a constructed product can have.
PostInit(p) ==
    /\ 1 <= p.occlusivity /\ p.occlusivity <= 5
    /\ 1 <= p.cleansing_power /\ p.cleansing_power <= 5

\* Mutant: the pollution threshold is reached at pm2_5 = 25.
pollution_des_le_seuil(c) ==
    IF c.pm2_5 = Aucun THEN FALSE ELSE c.pm2_5[1] >= 25

\* ConditionsEnvironnementales and its derived properties.
uv_critique(c) == c.indice_uv > SEUIL_UV_CRITIQUE
\* Mutant: the air counts as dry at humidite = 45 already.
environnement_sec_des_le_seuil(c) == c.humidite <= SEUIL_HUMIDITE_BASSE
environnement_sec(c) == c.humidite < SEUIL_HUMIDITE_BASSE
environnement_humide(c) == c.humidite > SEUIL_HUMIDITE_HAUTE
pollution_elevee(c) ==
    IF c.pm2_5 = Aucun THEN FALSE ELSE c.pm2_5[1] > SEUIL_PM25_POLLUTION

\* The descriptor strings appended to filtres_appliques (f-strings).
DescripteurUV(c) == <<"UV=", c.indice_uv, " > 3">>
DescripteurSec(c) == <<"H=", c.humidite, "% < 45%">>
DescripteurHumide(c) == <<"H=", c.humidite, "% > 70%">>
DescripteurPollution(c) == <<"PM2.5=", c.pm2_5[1], " > 25">>

\* dict[key] = value
Affecter(d, k, v) == [x \in DOMAIN d \cup {k} |-> IF x = k THEN v ELSE d[x]]

\* ResultatMoment() and ResultatDecision() with their default fields.
ResultatMoment(prods, opt) == [produits |-> prods, nettoyant_optimal |-> opt]
ResultatDecision ==
    [matin |-> ResultatMoment(<<>>, Aucun),
     journee |-> ResultatMoment(<<>>, Aucun),
     soir |-> ResultatMoment(<<>>, Aucun),
     produits_exclus |-> <<>>,
     raisons_exclusion |-> <<>>,
     filtres_appliques |-> <<>>]

-----------------------------------------------------------------------------
(* MoteurDecision.analyser, stage by stage.  acc is the pair               *)
(* [actifs, res]: the list produits_filtres being built and the result.    *)

\* Mutant: the test forgets the midday tag.
PhotosensibleDuMatin(p) ==
    p.photosensitive /\ p.moment \in {"matin"}

\* Lines 270-272: a photosensitive product tagged morning or midday.
PhotosensibleDeJour(p) ==
    p.photosensitive /\ p.moment \in {"matin", "journee"}

\* Mutant: an excluded product stays in the list being built.
RECURSIVE BoucleUVSansRetrait(_, _, _, _)
BoucleUVSansRetrait(prods, actifs, k, acc) ==
    IF k > Len(actifs) THEN acc
    ELSE LET p == actifs[k] IN
         IF PhotosensibleDeJour(prods[p])
         THEN BoucleUVSansRetrait(prods, actifs, k + 1,
                [acc EXCEPT
                   !.actifs = Append(@, p),
                   !.res.produits_exclus = Append(@, p),
                   !.res.raisons_exclusion = Affecter(@, prods[p].nom, RAISON_UV)])
         ELSE BoucleUVSansRetrait(prods, actifs, k + 1,
                [acc EXCEPT !.actifs = Append(@, p)])

\* Stage A, the loop of lines 269-278.
RECURSIVE BoucleUV(_, _, _, _)
BoucleUV(prods, actifs, k, acc) ==
    IF k > Len(actifs) THEN acc
    ELSE LET p == actifs[k] IN
         IF PhotosensibleDeJour(prods[p])
         THEN BoucleUV(prods, actifs, k + 1,
                [acc EXCEPT
                   !.res.produits_exclus = Append(@, p),
                   !.res.raisons_exclusion = Affecter(@, prods[p].nom, RAISON_UV)])
         ELSE BoucleUV(prods, actifs, k + 1,
                [acc EXCEPT !.actifs = Append(@, p)])

\* Mutant: stage A removes products without recording its descriptor.
FiltreSecuriteSansTrace(prods, c, actifs, res) ==
    IF uv_critique(c)
    THEN BoucleUV(prods, actifs, 1, [actifs |-> <<>>, res |-> res])
    ELSE [actifs |-> actifs, res |-> res]

FiltreSecurite(prods, c, actifs, res) ==
    IF uv_critique(c)
    THEN BoucleUV(prods, actifs, 1,
           [actifs |-> <<>>,
            res |-> [res EXCEPT !.filtres_appliques = Append(@, DescripteurUV(c))]])
    ELSE [actifs |-> actifs, res |-> res]

\* Mutant: an element is put in front of the elements of equal key.
RECURSIVE InsererAvantEgaux(_, _, _)
InsererAvantEgaux(prods, triee, i) ==
    IF triee = <<>> THEN <<i>>
    ELSE IF prods[Head(triee)].occlusivity > prods[i].occlusivity
         THEN <<Head(triee)>> \o InsererAvantEgaux(prods, Tail(triee), i)
         ELSE <<i>> \o triee

\* list.sort(key=occlusivity, reverse=True): a stable sort, equal keys keep
\* their order.  Inserer puts i behind every element whose key is >= its own.
RECURSIVE Inserer(_, _, _)
Inserer(prods, triee, i) ==
    IF triee = <<>> THEN <<i>>
    ELSE IF prods[Head(triee)].occlusivity >= prods[i].occlusivity
         THEN <<Head(triee)>> \o Inserer(prods, Tail(triee), i)
         ELSE <<i>> \o triee

RECURSIVE TrierParOcclusivite(_, _)
TrierParOcclusivite(prods, actifs) ==
    IF actifs = <<>> THEN <<>>
    ELSE Inserer(prods,
                 TrierParOcclusivite(prods, SubSeq(actifs, 1, Len(actifs) - 1)),
                 actifs[Len(actifs)])

\* Mutant: the humidity rule without the cleanser exemption.
TropLegerSansExemption(p) ==
    p.occlusivity <= 2

\* Line 297: a light texture that is not a cleanser.
TropLeger(p) ==
    p.occlusivity <= 2 /\ p.category # "cleanser"

\* Stage B, the loop of lines 294-301.
RECURSIVE BoucleHumide(_, _, _, _)
BoucleHumide(prods, actifs, k, acc) ==
    IF k > Len(actifs) THEN acc
    ELSE LET p == actifs[k] IN
         IF TropLeger(prods[p])
         THEN BoucleHumide(prods, actifs, k + 1,
                [acc EXCEPT
                   !.res.produits_exclus = Append(@, p),
                   !.res.raisons_exclusion = Affecter(@, prods[p].nom, RAISON_HUMIDITE)])
         ELSE BoucleHumide(prods, actifs, k + 1,
                [acc EXCEPT !.actifs = Append(@, p)])

FiltreTexture(prods, c, actifs, res) ==
    IF environnement_sec(c)
    THEN [actifs |-> TrierParOcclusivite(prods, actifs),
          res |-> [res EXCEPT !.filtres_appliques = Append(@, DescripteurSec(c))]]
    ELSE IF environnement_humide(c)
    THEN BoucleHumide(prods, actifs, 1,
           [actifs |-> <<>>,
            res |-> [res EXCEPT !.filtres_appliques = Append(@, DescripteurHumide(c))]])
    ELSE [actifs |-> actifs, res |-> res]

\* Mutant: on equal keys the later element wins.
RECURSIVE MaxPuissanceDernier(_, _, _, _)
MaxPuissanceDernier(prods, nettoyants, k, meilleur) ==
    IF k > Len(nettoyants) THEN meilleur
    ELSE IF prods[nettoyants[k]].cleansing_power >= prods[meilleur].cleansing_power
         THEN MaxPuissanceDernier(prods, nettoyants, k + 1, nettoyants[k])
         ELSE MaxPuissanceDernier(prods, nettoyants, k + 1, meilleur)

\* max(nettoyants, key=cleansing_power): the first element of the largest key.
RECURSIVE MaxPuissance(_, _, _, _)
MaxPuissance(prods, nettoyants, k, meilleur) ==
    IF k > Len(nettoyants) THEN meilleur
    ELSE IF prods[nettoyants[k]].cleansing_power > prods[meilleur].cleansing_power
         THEN MaxPuissance(prods, nettoyants, k + 1, nettoyants[k])
         ELSE MaxPuissance(prods, nettoyants, k + 1, meilleur)

EstNettoyant(prods, p) == prods[p].category = "cleanser"

\* Stage C, lines 308-315: the optimal cleanser and the descriptor.
FiltrePurete(prods, c, actifs, res) ==
    IF pollution_elevee(c)
    THEN LET nettoyants == SelectSeq(actifs, LAMBDA p : EstNettoyant(prods, p)) IN
         [nettoyant_optimal |->
              IF nettoyants # <<>>
              THEN Quelque(MaxPuissance(prods, nettoyants, 2, nettoyants[1]))
              ELSE Aucun,
          res |-> [res EXCEPT !.filtres_appliques = Append(@, DescripteurPollution(c))]]
    ELSE [nettoyant_optimal |-> Aucun, res |-> res]

\* Mutant: a product tagged "tous" is put in no bucket.
filtrer_par_moment_strict(prods, actifs, moment) ==
    SelectSeq(actifs, LAMBDA p : prods[p].moment = moment)

\* filtrer_par_moment, lines 320-325.
filtrer_par_moment(prods, actifs, moment) ==
    SelectSeq(actifs, LAMBDA p : prods[p].moment = moment \/ prods[p].moment = "tous")

\* The three stages in sequence, then the buckets (lines 259-340).
\* The value has the result and the working set after stages A and B.
Analyse(prods, c) ==
    LET depart == [k \in 1..Len(prods) |-> k]
        a == FiltreSecurite(prods, c, depart, ResultatDecision)
        b == FiltreTexture(prods, c, a.actifs, a.res)
        p == FiltrePurete(prods, c, b.actifs, b.res)
    IN [apres_uv |-> a.actifs,
        apres_texture |-> b.actifs,
        resultat |->
          [p.res EXCEPT
             !.matin = ResultatMoment(filtrer_par_moment(prods, b.actifs, "matin"),
                                      p.nettoyant_optimal),
             !.journee = ResultatMoment(filtrer_par_moment(prods, b.actifs, "journee"),
                                        Aucun),
             !.soir = ResultatMoment(filtrer_par_moment(prods, b.actifs, "soir"),
                                     p.nettoyant_optimal)]]

-----------------------------------------------------------------------------
(* Inputs of the decision engine                                           *)

MaxCatalogue == 2

\* Products a caller can construct.  The ratings stay around the humidity
\* rule's threshold (occlusivity <= 2); cleansers have two cleansing powers,
\* so that ties happen; the other fields of a treatment keep the dataclass
\* defaults.  Products of one category share a name (names are not unique).
Nettoyants ==
    [nom : {"Nettoyant"},
     category : {"cleanser"},
     moment : {"matin", "tous"},
     photosensitive : BOOLEAN,
     occlusivity : {2, 3},
     cleansing_power : {3, 4},
     active_tag : {"hydration"}]

Soins ==
    [nom : {"Soin"},
     category : {"treatment"},
     moment : MomentUtilisation,
     photosensitive : BOOLEAN,
     occlusivity : {2, 3},
     cleansing_power : {3},
     active_tag : {"hydration"}]

Produits == {p \in Nettoyants \cup Soins : PostInit(p)}

Catalogues == UNION {[1..n -> Produits] : n \in 0..MaxCatalogue}

\* Readings on both sides of each threshold; pm2_5 may be None.
Releves ==
    [indice_uv : {SEUIL_UV_CRITIQUE, SEUIL_UV_CRITIQUE + 1},
     humidite : {SEUIL_HUMIDITE_BASSE - 1, SEUIL_HUMIDITE_BASSE,
                 SEUIL_HUMIDITE_HAUTE, SEUIL_HUMIDITE_HAUTE + 1},
     pm2_5 : {Aucun, Quelque(SEUIL_PM25_POLLUTION), Quelque(SEUIL_PM25_POLLUTION + 1)}]

ConditionsParDefaut == [indice_uv |-> 0, humidite |-> 50, pm2_5 |-> Aucun]

\* No history store is open while the engine is studied.
HistAuRepos ==
    /\ horloge = 0
    /\ fichier_recentes = [genre |-> "absent", analyses |-> <<>>]
    /\ fichier_archives = [genre |-> "absent", analyses |-> <<>>]
    /\ analyses_recentes = <<>>
    /\ analyses_archives = <<>>
    /\ op = "aucune"
    /\ retour = Aucun
    /\ sortie = Aucun

\* The three files of GestionnaireCache.__init__, in the order in which
\* nettoyer_cache_expire, vider_cache and obtenir_etat_cache visit them.
OrdreCles == <<"meteo_actuelle", "previsions", "derniere_routine">>
Cles == {OrdreCles[k] : k \in DOMAIN OrdreCles}

FichierCacheAbsent == [genre |-> "absent"]

\* What the callers have done to a file: never saved, saved (with the
\* arguments and the instant of the last save, and whether that save found
\* a file in place), or saved and later removed by vider_cache.
JamaisSauve == [statut |-> "jamais", dernier |-> Aucun, remplace |-> FALSE]

\* No cache is in use while the engine or the history store is studied.
CacheAuRepos ==
    /\ minute = 0
    /\ fichiers_cache = [c \in Cles |-> FichierCacheAbsent]
    /\ journal = [c \in Cles |-> JamaisSauve]
    /\ op_cache = "aucune"
    /\ cle_cache = ""
    /\ retour_cache = Aucun
    /\ erreur_cache = ""

\* No pair of stores is open while another subsystem is studied.
DuoAuRepos ==
    /\ horloge_duo = 0
    /\ fichiers_duo = [recentes |-> [genre |-> "absent", analyses |-> <<>>],
                       archives |-> [genre |-> "absent", analyses |-> <<>>]]
    /\ instances = <<>>
    /\ ignorees = <<>>
    /\ ecrasees = {}
    /\ op_duo = <<"aucune", 0>>

\* No product is being made or converted.
ProduitAuRepos ==
    /\ classe = "models"
    /\ entree = Aucun
    /\ produit = Aucun
    /\ dict_produit = Aucun
    /\ relu = Aucun
    /\ erreur_produit = ""
    /\ op_produit = "aucune"

\* No analysis has been asked of the orchestrator.
AnalyseurAuRepos ==
    /\ historique = <<>>
    /\ appels_ia = 0
    /\ mode_ia = ""
    /\ historique_recent = <<>>
    /\ resultat_ia = Aucun
    /\ op_ia = "aucune"

\* MoteurDecision(produits): the engine keeps a copy of the caller's list.
InitMoteur ==
    /\ HistAuRepos
    /\ CacheAuRepos
    /\ DuoAuRepos
    /\ ProduitAuRepos
    /\ AnalyseurAuRepos
    /\ produits_originaux \in Catalogues
    /\ conditions = ConditionsParDefaut
    /\ apres_uv = <<>>
    /\ apres_texture = <<>>
    /\ resultat = ResultatDecision
    /\ etape = "construit"

\* moteur.analyser(conditions), called once on a fresh engine
\* (gui/app_flet.py:265-266).
Analyser(c) ==
    /\ etape = "construit"
    /\ LET r == Analyse(produits_originaux, c) IN
         /\ conditions' = c
         /\ apres_uv' = r.apres_uv
         /\ apres_texture' = r.apres_texture
         /\ resultat' = r.resultat
    /\ etape' = "analyse"
    /\ UNCHANGED produits_originaux
    /\ UNCHANGED horsMoteur

NextMoteur == \E c \in Releves : Analyser(c)

SpecMoteur == InitMoteur /\ [][NextMoteur]_vars

-----------------------------------------------------------------------------
(* Properties of the decision engine                                       *)

Analysee == etape = "analyse"
Indices == 1..Len(produits_originaux)
P(i) == produits_originaux[i]
Dans(s, i) == \E k \in DOMAIN s : s[k] = i
Position(s, i) == CHOOSE k \in DOMAIN s : s[k] = i
SansDoublon(s) == \A j, k \in DOMAIN s : s[j] = s[k] => j = k
Paniers == <<resultat.matin.produits, resultat.journee.produits, resultat.soir.produits>>
DansUnPanier(i) == \E b \in 1..3 : Dans(Paniers[b], i)
ADescripteur(prefixe) ==
    \E k \in DOMAIN resultat.filtres_appliques : resultat.filtres_appliques[k][1] = prefixe
UVEleve == conditions.indice_uv > 3
Sec == conditions.humidite < 45
Humide == conditions.humidite > 70
Pollue == conditions.pm2_5 # Aucun /\ conditions.pm2_5[1] > 25

\* C1: a product leaves the working set at the UV stage exactly when
\* uv_index > 3 and it is photosensitive with moment morning or midday; such a
\* product is then in no morning or midday bucket and is listed in
\* produits_exclus; when uv_index <= 3 no reason of exclusion is the
\* photosensitivity one, and that reason is only recorded under the name of a
\* photosensitive morning or midday product.
C1_ExclusionPhotosensible ==
    Analysee =>
      /\ \A i \in Indices :
           ~Dans(apres_uv, i) <=>
              (UVEleve /\ P(i).photosensitive /\ P(i).moment \in {"matin", "journee"})
      /\ \A i \in Indices :
           (UVEleve /\ P(i).photosensitive /\ P(i).moment \in {"matin", "journee"}) =>
              /\ Dans(resultat.produits_exclus, i)
              /\ ~Dans(resultat.matin.produits, i)
              /\ ~Dans(resultat.journee.produits, i)
      /\ \A n \in DOMAIN resultat.raisons_exclusion :
           resultat.raisons_exclusion[n] = RAISON_UV =>
              /\ UVEleve
              /\ \E i \in Indices :
                   /\ P(i).nom = n
                   /\ P(i).photosensitive
                   /\ P(i).moment \in {"matin", "journee"}

\* C1 witness: under a critical UV index a photosensitive midday product was
\* excluded while a photosensitive evening product was kept.
C1_Temoin ==
    /\ Analysee /\ UVEleve
    /\ \E i, j \in Indices :
         /\ P(i).photosensitive /\ P(i).moment = "journee"
         /\ Dans(resultat.produits_exclus, i)
         /\ P(j).photosensitive /\ P(j).moment = "soir"
         /\ Dans(resultat.soir.produits, j)

C3_TriStable ==
    (Analysee /\ Sec) =>
      /\ Len(apres_texture) = Len(apres_uv)
      /\ SansDoublon(apres_texture)
      /\ \A i \in Indices : Dans(apres_texture, i) <=> Dans(apres_uv, i)
      /\ \A j, k \in DOMAIN apres_texture :
           j < k =>
             /\ P(apres_texture[j]).occlusivity >= P(apres_texture[k]).occlusivity
             /\ P(apres_texture[j]).occlusivity = P(apres_texture[k]).occlusivity =>
                  Position(apres_uv, apres_texture[j]) < Position(apres_uv, apres_texture[k])
      /\ \A b \in 1..3 :
           \A j, k \in DOMAIN Paniers[b] :
             j < k => Position(apres_texture, Paniers[b][j])
                        < Position(apres_texture, Paniers[b][k])

\* C3 witness: under humidity < 45 two products of equal occlusivity went
\* through the sort.
C3_Temoin ==
    /\ Analysee /\ Sec
    /\ Len(apres_texture) >= 2
    /\ P(apres_texture[1]).occlusivity = P(apres_texture[2]).occlusivity
    /\ P(apres_texture[1]) # P(apres_texture[2])

\* C4: the midday result never has an optimal cleanser, the morning and the
\* evening results have the same one, and they have one only when pm2_5 is
\* not None and > 25.
C4_NettoyantOptimal ==
    Analysee =>
      /\ resultat.journee.nettoyant_optimal = Aucun
      /\ resultat.matin.nettoyant_optimal = resultat.soir.nettoyant_optimal
      /\ resultat.matin.nettoyant_optimal # Aucun => Pollue

\* C4 witness: pm2_5 > 25 and the morning and evening results name a cleanser.
C4_Temoin ==
    /\ Analysee /\ Pollue
    /\ resultat.matin.nettoyant_optimal # Aucun
    /\ resultat.soir.nettoyant_optimal # Aucun

StageUVChange == apres_uv # [k \in Indices |-> k]
StageTextureChange == apres_texture # apres_uv

\* C5 as stated: a descriptor is in the trace only if its stage changed the
\* working set (the purity stage never changes it).
C5_TraceSeulementSiChange ==
    Analysee =>
      /\ ADescripteur("UV=") => StageUVChange
      /\ ADescripteur("H=") => StageTextureChange
      /\ ~ADescripteur("PM2.5=")

\* C5 amended: a stage that changes the working set has its descriptor in
\* the trace, and a descriptor is in the trace only if the threshold of its
\* stage trips, whether or not the stage changed the working set.
C5_TraceSiSeuil ==
    Analysee =>
      /\ StageUVChange => ADescripteur("UV=")
      /\ StageTextureChange => ADescripteur("H=")
      /\ ADescripteur("UV=") => UVEleve
      /\ ADescripteur("H=") => (Sec \/ Humide)
      /\ ADescripteur("PM2.5=") => Pollue

\* C5 witness: the UV threshold trips on a catalog without any product to
\* remove: the working set is the same and the descriptor is in the trace.
C5_Temoin ==
    /\ Analysee /\ UVEleve
    /\ produits_originaux # <<>>
    /\ ~StageUVChange
    /\ resultat.filtres_appliques # <<>>
    /\ resultat.filtres_appliques[1] = DescripteurUV(conditions)

\* C6: a product is in the bucket of a moment iff it is in the remaining
\* working set and its tag is that moment or "tous"; a remaining product
\* tagged "tous" is in the three buckets, every remaining product is in a
\* bucket, and no bucket lists a product twice.
C6_Paniers ==
    Analysee =>
      /\ \A i \in Indices :
           /\ Dans(resultat.matin.produits, i) <=>
                (Dans(apres_texture, i) /\ P(i).moment \in {"matin", "tous"})
           /\ Dans(resultat.journee.produits, i) <=>
                (Dans(apres_texture, i) /\ P(i).moment \in {"journee", "tous"})
           /\ Dans(resultat.soir.produits, i) <=>
                (Dans(apres_texture, i) /\ P(i).moment \in {"soir", "tous"})
           /\ (Dans(apres_texture, i) /\ P(i).moment = "tous") =>
                \A b \in 1..3 : Dans(Paniers[b], i)
           /\ Dans(apres_texture, i) => DansUnPanier(i)
      /\ \A b \in 1..3 : SansDoublon(Paniers[b])

\* C6 witness: a remaining product tagged "tous" is in the three buckets
\* and a remaining product tagged "journee" is in the midday bucket only.
C6_Temoin ==
    /\ Analysee
    /\ \E i, j \in Indices :
         /\ P(i).moment = "tous"
         /\ \A b \in 1..3 : Dans(Paniers[b], i)
         /\ P(j).moment = "journee"
         /\ Dans(resultat.journee.produits, j)
         /\ ~Dans(resultat.matin.produits, j)
         /\ ~Dans(resultat.soir.produits, j)

-----------------------------------------------------------------------------
(* GestionnaireHistorique (core/historique.py).                            *)
(*                                                                         *)
(* Time is counted in days.  Two readings of the clock with no Avancer     *)
(* step between them fall in the same second: the entries made then share  *)
(* their id (strftime to the second).  A timestamp string is the record    *)
(* [iso, t]: Iso(t) is datetime.isoformat() of the instant t, and a string *)
(* with iso = FALSE is one datetime.fromisoformat rejects.                 *)

DUREE_RECENTES_JOURS == 14

Iso(t) == [iso |-> TRUE, t |-> t]
ChaineVide == [iso |-> FALSE, t |-> 0]

\* strftime("%Y%m%d_%H%M%S"): the id of an entry made at the instant t; the
\* empty id is the default of depuis_dict.
FormaterId(t) == <<t>>
IdVide == <<>>

\* dict.get(key, default)
Get(d, k, defaut) == IF k \in DOMAIN d THEN d[k] ELSE defaut

\* Mutant: vers_dict forgets the timestamp.
vers_dict_sans_timestamp(a) ==
    [id |-> a.id, contenu |-> a.contenu]

\* ResultatAnalyseHistorique.vers_dict and depuis_dict.  contenu stands for
\* the conditions, the three product lists and the alerts of the entry.
vers_dict(a) ==
    [id |-> a.id, timestamp |-> a.timestamp, contenu |-> a.contenu]

depuis_dict(d) ==
    [id |-> Get(d, "id", IdVide),
     timestamp |-> Get(d, "timestamp", ChaineVide),
     contenu |-> Get(d, "contenu", "")]

\* A file is absent, holds text json.load rejects, holds a JSON array of
\* objects, or holds well-formed JSON of another shape: a number, null, an
\* object with a key, an array with an element that is not an object.
FichierAbsent == [genre |-> "absent", analyses |-> <<>>]
FichierInvalide == [genre |-> "invalide", analyses |-> <<>>]
FichierJson(dicts) == [genre |-> "liste", analyses |-> dicts]
FichierAutre == [genre |-> "autre", analyses |-> <<>>]

\* _charger, lines 163-174: the except clause names json.JSONDecodeError and
\* IOError only.  On JSON of another shape the comprehension of line 171
\* raises TypeError (the value is not iterable) or AttributeError (an
\* element has no get), which _charger lets through.
ChargerLeve(fichier) == fichier.genre = "autre"

\* _charger, lines 163-174, when it returns.
Charger(fichier) ==
    IF fichier.genre = "absent" THEN <<>>
    ELSE IF fichier.genre = "invalide" THEN <<>>
    ELSE [k \in DOMAIN fichier.analyses |-> depuis_dict(fichier.analyses[k])]

\* _sauvegarder, lines 176-183: the content the file has afterwards.
Sauvegarder(analyses) ==
    FichierJson([k \in DOMAIN analyses |-> vers_dict(analyses[k])])

\* Mutant: the window is one day too long.
date_limite_tardive(maintenant) == maintenant - (DUREE_RECENTES_JOURS + 1)

\* date_limite, line 198.
date_limite(maintenant) == maintenant - DUREE_RECENTES_JOURS

\* Mutant: a timestamp that does not parse is read as the instant 0.
AArchiverDateParDefaut(analyse, limite) ==
    IF analyse.timestamp.iso THEN analyse.timestamp.t < limite ELSE 0 < limite

\* Lines 204-212: TRUE when the entry goes to analyses_a_archiver; an entry
\* whose timestamp does not parse goes to analyses_a_garder.
AArchiver(analyse, limite) ==
    IF analyse.timestamp.iso THEN analyse.timestamp.t < limite ELSE FALSE

\* Mutant: the loop puts each entry to archive in front of the others.
RECURSIVE BoucleRotationInversee(_, _, _, _)
BoucleRotationInversee(recentes, k, limite, acc) ==
    IF k > Len(recentes) THEN acc
    ELSE IF AArchiver(recentes[k], limite)
         THEN BoucleRotationInversee(recentes, k + 1, limite,
                [acc EXCEPT !.a_archiver = <<recentes[k]>> \o @])
         ELSE BoucleRotationInversee(recentes, k + 1, limite,
                [acc EXCEPT !.a_garder = Append(@, recentes[k])])

\* The loop of lines 203-212.
RECURSIVE BoucleRotation(_, _, _, _)
BoucleRotation(recentes, k, limite, acc) ==
    IF k > Len(recentes) THEN acc
    ELSE IF AArchiver(recentes[k], limite)
         THEN BoucleRotation(recentes, k + 1, limite,
                [acc EXCEPT !.a_archiver = Append(@, recentes[k])])
         ELSE BoucleRotation(recentes, k + 1, limite,
                [acc EXCEPT !.a_garder = Append(@, recentes[k])])

\* Mutant: the archived entries are not taken out of analyses_recentes.
AppliquerRotationSansRetrait(st, tri) ==
    IF tri.a_archiver # <<>>
    THEN LET archives == st.archives \o tri.a_archiver IN
         [recentes |-> st.recentes,
          archives |-> archives,
          f_recentes |-> Sauvegarder(st.recentes),
          f_archives |-> Sauvegarder(archives),
          sortie |-> Quelque(Len(tri.a_archiver))]
    ELSE [st EXCEPT !.sortie = Aucun]

\* Lines 214-218: what _rotation_analyses does with the two lists.
AppliquerRotation(st, tri) ==
    IF tri.a_archiver # <<>>
    THEN LET archives == st.archives \o tri.a_archiver IN
         [recentes |-> tri.a_garder,
          archives |-> archives,
          f_recentes |-> Sauvegarder(tri.a_garder),
          f_archives |-> Sauvegarder(archives),
          sortie |-> Quelque(Len(tri.a_archiver))]
    ELSE [st EXCEPT !.sortie = Aucun]

\* _rotation_analyses, lines 190-218, on the store st =
\* [recentes, archives, f_recentes, f_archives, sortie] at the instant maintenant.
Rotation(st, maintenant) ==
    AppliquerRotation(st,
        BoucleRotation(st.recentes, 1, date_limite(maintenant),
                       [a_archiver |-> <<>>, a_garder |-> <<>>]))

\* Mutant: list.append(x) in place of list.insert(0, x).
InsererEnQueue(liste, x) == liste \o <<x>>

\* list.insert(0, x)
InsererEnTete(liste, x) == <<x>> \o liste

\* del liste[i]
Retirer(liste, i) == SubSeq(liste, 1, i - 1) \o SubSeq(liste, i + 1, Len(liste))

\* The first index whose entry has the id, or 0.
RECURSIVE Chercher(_, _, _)
Chercher(liste, id_analyse, i) ==
    IF i > Len(liste) THEN 0
    ELSE IF liste[i].id = id_analyse THEN i
    ELSE Chercher(liste, id_analyse, i + 1)

Etat ==
    [recentes |-> analyses_recentes,
     archives |-> analyses_archives,
     f_recentes |-> fichier_recentes,
     f_archives |-> fichier_archives,
     sortie |-> Aucun]

Installer(st) ==
    /\ analyses_recentes' = st.recentes
    /\ analyses_archives' = st.archives
    /\ fichier_recentes' = st.f_recentes
    /\ fichier_archives' = st.f_archives
    /\ sortie' = st.sortie

\* obtenir_recentes, obtenir_archives, obtenir_toutes and statistiques.
obtenir_recentes == analyses_recentes
obtenir_archives == analyses_archives
obtenir_toutes == analyses_recentes \o analyses_archives
\* obtenir_par_id, lines 320-333: the first entry of recentes + archives
\* that has the id, or None.
obtenir_par_id(id_analyse) ==
    LET k == Chercher(obtenir_toutes, id_analyse, 1) IN
      IF k = 0 THEN Aucun ELSE Quelque(obtenir_toutes[k])
statistiques ==
    [nb_recentes |-> Len(analyses_recentes),
     nb_archives |-> Len(analyses_archives),
     nb_total |-> Len(analyses_recentes) + Len(analyses_archives),
     derniere_analyse |->
        IF analyses_recentes # <<>> THEN Quelque(analyses_recentes[1].timestamp)
        ELSE Aucun]

\* ---- bounds and inputs ----

MaxAnalyses == 3
MaxTemps == 23

\* The clock moves by a week or by a week and a day.
Pas == {7, 8}

Contenus == {"c1", "c2"}

\* Files left by earlier runs: none, unreadable text, JSON that is not an
\* array of objects, an empty array, an entry without timestamp; the archive may hold an entry of three weeks ago.
FichiersRecentesInitiaux ==
    {FichierAbsent, FichierInvalide, FichierAutre, FichierJson(<<>>),
     FichierJson(<<[id |-> FormaterId(0 - 2), contenu |-> "c1"]>>)}
FichiersArchivesInitiaux ==
    {FichierAbsent, FichierInvalide, FichierAutre,
     FichierJson(<<[id |-> FormaterId(0 - 21), timestamp |-> Iso(0 - 21),
                    contenu |-> "c1"]>>)}

MoteurAuRepos ==
    /\ produits_originaux = <<>>
    /\ conditions = ConditionsParDefaut
    /\ apres_uv = <<>>
    /\ apres_texture = <<>>
    /\ resultat = ResultatDecision
    /\ etape = "construit"

\* GestionnaireHistorique.__init__, lines 146-161, on given files.
Construire(f_recentes, f_archives, maintenant) ==
    Rotation([recentes |-> Charger(f_recentes),
              archives |-> Charger(f_archives),
              f_recentes |-> f_recentes,
              f_archives |-> f_archives,
              sortie |-> Aucun], maintenant)

\* __init__ raises when one of its two _charger calls raises: no store is
\* made and the files stay as they are.
ConstruireLeve(f_recentes, f_archives) ==
    ChargerLeve(f_recentes) \/ ChargerLeve(f_archives)

SansMagasin(f_recentes, f_archives) ==
    [recentes |-> <<>>,
     archives |-> <<>>,
     f_recentes |-> f_recentes,
     f_archives |-> f_archives,
     sortie |-> Aucun]

\* A store is open unless the last construction raised: op stays "echec"
\* until a construction succeeds.
Ouvert == op # "echec"

InitHist ==
    /\ MoteurAuRepos
    /\ CacheAuRepos
    /\ DuoAuRepos
    /\ ProduitAuRepos
    /\ AnalyseurAuRepos
    /\ horloge = 0
    /\ \E fr \in FichiersRecentesInitiaux, fa \in FichiersArchivesInitiaux :
         LET leve == ConstruireLeve(fr, fa)
             st == IF leve THEN SansMagasin(fr, fa) ELSE Construire(fr, fa, 0)
         IN
           /\ analyses_recentes = st.recentes
           /\ analyses_archives = st.archives
           /\ fichier_recentes = st.f_recentes
           /\ fichier_archives = st.f_archives
           /\ sortie = st.sortie
           /\ op = IF leve THEN "echec" ELSE "construire"
    /\ retour = Aucun

\* Time passes between two operations.
Avancer(d) ==
    /\ horloge + d <= MaxTemps
    /\ horloge' = horloge + d
    /\ op' = IF Ouvert THEN "avancer" ELSE op
    /\ retour' = Aucun
    /\ sortie' = Aucun
    /\ UNCHANGED <<fichier_recentes, fichier_archives, analyses_recentes, analyses_archives>>
    /\ UNCHANGED horsHist

\* The application restarts: a new store is constructed on the same files.
Rouvrir ==
    /\ IF ConstruireLeve(fichier_recentes, fichier_archives)
       THEN /\ Installer(SansMagasin(fichier_recentes, fichier_archives))
            /\ op' = "echec"
       ELSE /\ Installer(Construire(fichier_recentes, fichier_archives, horloge))
            /\ op' = "construire"
    /\ retour' = Aucun
    /\ UNCHANGED horloge
    /\ UNCHANGED horsHist

\* ajouter_analyse, lines 224-268.
Ajouter(c) ==
    /\ Ouvert
    /\ Len(analyses_recentes) + Len(analyses_archives) < MaxAnalyses
    /\ LET maintenant == horloge
           analyse == [id |-> FormaterId(maintenant),
                       timestamp |-> Iso(maintenant),
                       contenu |-> c]
           st == Rotation([Etat EXCEPT !.recentes = InsererEnTete(@, analyse)],
                          horloge)
       IN /\ Installer([st EXCEPT !.f_recentes = Sauvegarder(st.recentes)])
          /\ retour' = analyse
    /\ op' = "ajouter"
    /\ UNCHANGED horloge
    /\ UNCHANGED horsHist

\* Mutant: forcer_rotation returns the size of the archive.
ForcerRotationRendantLeTotal ==
    /\ Ouvert
    /\ LET st == Rotation(Etat, horloge)
       IN /\ Installer(st)
          /\ retour' = Len(st.archives)
    /\ op' = "rotation"
    /\ UNCHANGED horloge
    /\ UNCHANGED horsHist

\* forcer_rotation, lines 373-382.
ForcerRotation ==
    /\ Ouvert
    /\ LET nb_avant == Len(analyses_archives)
           st == Rotation(Etat, horloge)
       IN /\ Installer(st)
          /\ retour' = Len(st.archives) - nb_avant
    /\ op' = "rotation"
    /\ UNCHANGED horloge
    /\ UNCHANGED horsHist

\* supprimer_analyse, lines 335-359.
Supprimer(id_analyse) ==
    /\ Ouvert
    /\ LET i == Chercher(analyses_recentes, id_analyse, 1)
           j == Chercher(analyses_archives, id_analyse, 1)
       IN IF i # 0
          THEN /\ analyses_recentes' = Retirer(analyses_recentes, i)
               /\ fichier_recentes' = Sauvegarder(analyses_recentes')
               /\ retour' = TRUE
               /\ UNCHANGED <<analyses_archives, fichier_archives>>
          ELSE IF j # 0
          THEN /\ analyses_archives' = Retirer(analyses_archives, j)
               /\ fichier_archives' = Sauvegarder(analyses_archives')
               /\ retour' = TRUE
               /\ UNCHANGED <<analyses_recentes, fichier_recentes>>
          ELSE /\ retour' = FALSE
               /\ UNCHANGED <<analyses_recentes, fichier_recentes,
                              analyses_archives, fichier_archives>>
    /\ op' = "supprimer"
    /\ sortie' = Aucun
    /\ UNCHANGED horloge
    /\ UNCHANGED horsHist

\* vider_archives, lines 361-371.
ViderArchives ==
    /\ Ouvert
    /\ retour' = Len(analyses_archives)
    /\ analyses_archives' = <<>>
    /\ fichier_archives' = Sauvegarder(<<>>)
    /\ op' = "vider"
    /\ sortie' = Aucun
    /\ UNCHANGED <<horloge, analyses_recentes, fichier_recentes>>
    /\ UNCHANGED horsHist

\* The ids a caller may ask to delete: those of the stored entries and one
\* that no entry has.
IdsDemandes ==
    {obtenir_toutes[k].id : k \in DOMAIN obtenir_toutes} \cup {FormaterId(MaxTemps + 1)}

NextHist ==
    \/ \E d \in Pas : Avancer(d)
    \/ Rouvrir
    \/ \E c \in Contenus : Ajouter(c)
    \/ ForcerRotation
    \/ \E id_analyse \in IdsDemandes : Supprimer(id_analyse)
    \/ ViderArchives

SpecHist == InitHist /\ [][NextHist]_vars

-----------------------------------------------------------------------------
(* Properties of the history store                                         *)

Elements(s) == {s[k] : k \in DOMAIN s}
Occurrences(s, e) == Cardinality({k \in DOMAIN s : s[k] = e})
ApresRotation == op \in {"construire", "ajouter", "rotation"}
DansFenetre(a) == a.timestamp.iso => a.timestamp.t >= horloge - 14
Decroissante(s) ==
    \A j, k \in DOMAIN s :
      (j < k /\ s[j].timestamp.iso /\ s[k].timestamp.iso) =>
         s[j].timestamp.t >= s[k].timestamp.t

\* The two lists an operation starts from: the files for a construction,
\* the lists in memory otherwise.
RecentesAvant ==
    IF op' = "construire" THEN Charger(fichier_recentes) ELSE analyses_recentes
ArchivesAvant ==
    IF op' = "construire" THEN Charger(fichier_archives) ELSE analyses_archives
\* The entries the operation moved: the new tail of the archive.
Deplacees ==
    SubSeq(analyses_archives', Len(ArchivesAvant) + 1, Len(analyses_archives'))
Nouvelles == IF op' = "ajouter" THEN {retour'} ELSE {}

\* C7: right after a construction, an append or a forced rotation no entry
\* of analyses_recentes has a timestamp more than 14 days before now; and
\* such an operation leaves the archive it found in place and every entry it
\* adds to it is, field for field, an entry that was in analyses_recentes
\* (or the entry just appended).
C7_Rotation ==
    /\ [](ApresRotation => \A k \in DOMAIN analyses_recentes :
                              DansFenetre(analyses_recentes[k]))
    /\ [][op' \in {"construire", "ajouter", "rotation"} =>
            /\ Len(analyses_archives') >= Len(ArchivesAvant)
            /\ SubSeq(analyses_archives', 1, Len(ArchivesAvant)) = ArchivesAvant
            /\ \A k \in DOMAIN Deplacees :
                 /\ Deplacees[k] \in Elements(RecentesAvant) \cup Nouvelles
                 /\ Deplacees[k].timestamp.iso
                 /\ Deplacees[k].timestamp.t < horloge' - 14]_vars

\* C7 witness: a forced rotation archived an entry and kept another one.
C7_Temoin ==
    /\ op = "rotation"
    /\ retour >= 1
    /\ analyses_recentes # <<>>
    /\ analyses_archives # <<>>

\* C8: no entry is in analyses_recentes and in analyses_archives at once,
\* and a construction, an append or a forced rotation keeps every entry:
\* each entry occurs afterwards in the two lists together as often as before
\* (once more for the entry appended).
C8_UneSeulePartition ==
    /\ [](Elements(analyses_recentes) \cap Elements(analyses_archives) = {})
    /\ [][op' \in {"construire", "ajouter", "rotation"} =>
            \A e \in Elements(RecentesAvant \o ArchivesAvant) \cup Nouvelles
                     \cup Elements(analyses_recentes' \o analyses_archives') :
               Occurrences(analyses_recentes' \o analyses_archives', e)
                 = Occurrences(RecentesAvant \o ArchivesAvant, e)
                   + (IF e \in Nouvelles THEN 1 ELSE 0)]_vars

\* C8 witness: an append during which the rotation archived an entry, with
\* entries in both partitions afterwards.
C8_Temoin ==
    /\ op = "ajouter"
    /\ sortie # Aucun
    /\ analyses_recentes # <<>>
    /\ analyses_archives # <<>>

\* C9: obtenir_recentes, obtenir_archives and obtenir_toutes list the
\* entries in non-increasing timestamp order.
C9_PlusRecentEnPremier ==
    /\ Decroissante(obtenir_recentes)
    /\ Decroissante(obtenir_archives)
    /\ Decroissante(obtenir_toutes)

\* C10: right after ajouter_analyse the entry returned is
\* analyses_recentes[0], it carries the instant of the call, the entries
\* that were in analyses_recentes and were not archived follow it in their
\* prior order, and statistiques gives its timestamp as derniere_analyse.
C10_AjoutEnTete ==
    [][op' = "ajouter" =>
         /\ analyses_recentes' # <<>>
         /\ analyses_recentes'[1] = retour'
         /\ retour'.timestamp = Iso(horloge)
         /\ Tail(analyses_recentes')
              = SelectSeq(analyses_recentes,
                          LAMBDA a : \A k \in DOMAIN Deplacees : Deplacees[k] # a)
         /\ statistiques'.derniere_analyse = Quelque(retour'.timestamp)]_vars

\* C10 witness: an append put its entry in front of an older recent entry
\* while the rotation of the same call archived another one.
C10_Temoin ==
    /\ op = "ajouter"
    /\ sortie # Aucun
    /\ Len(analyses_recentes) >= 2
    /\ analyses_recentes[1] = retour
    /\ analyses_recentes[2].timestamp.t < retour.timestamp.t

\* C11: supprimer_analyse(id) returns True exactly when an entry with that
\* id was stored; once it has returned, obtenir_par_id(id) finds nothing and
\* neither list holds the id any more, so that a repeated call returns False
\* and changes nothing.
C11_SuppressionIdempotente ==
    [][\A id_analyse \in IdsDemandes :
         (op' = "supprimer" /\ Supprimer(id_analyse)) =>
           /\ retour' = (obtenir_par_id(id_analyse) # Aucun)
           /\ obtenir_par_id(id_analyse)' = Aucun
           /\ Chercher(analyses_recentes', id_analyse, 1) = 0
           /\ Chercher(analyses_archives', id_analyse, 1) = 0]_vars

\* C12: a construction, an append or a forced rotation keeps every entry of
\* analyses_recentes whose timestamp does not parse: the entry is in
\* analyses_recentes afterwards as often as before and is not among the
\* entries moved to the archive, however long ago it was made.
C12_DateIllisibleGardee ==
    [][op' \in {"construire", "ajouter", "rotation"} =>
         \A e \in Elements(RecentesAvant) :
            ~e.timestamp.iso =>
               /\ Occurrences(analyses_recentes', e) = Occurrences(RecentesAvant, e)
               /\ \A k \in DOMAIN Deplacees : Deplacees[k] # e]_vars

\* C12 witness: more than 14 days after the start a forced rotation archived
\* an entry while an entry without a readable timestamp stayed in
\* analyses_recentes.
C12_Temoin ==
    /\ op = "rotation"
    /\ retour >= 1
    /\ horloge > DUREE_RECENTES_JOURS
    /\ \E k \in DOMAIN analyses_recentes : ~analyses_recentes[k].timestamp.iso

\* C13: a construction on files of which one is unreadable or is not a
\* well-formed array of entries does not raise; the list of that file is
\* empty and the other list is what its own file holds.
C13_ConstructionSansEchec ==
    op \in {"construire", "echec"} =>
       /\ op = "construire"
       /\ fichier_recentes.genre # "liste" =>
             /\ analyses_recentes = <<>>
             /\ analyses_archives = Charger(fichier_archives)
       /\ fichier_archives.genre # "liste" =>
             /\ analyses_archives = <<>>
             /\ analyses_recentes = Charger(fichier_recentes)

-----------------------------------------------------------------------------
(* The cache (core/cache.py)                                               *)

\* The default ttl_minutes of the three sauvegarder_* methods.
TTL_METEO == 60
TTL_PREVISIONS == 720
TTL_ROUTINE == 1440

TtlParDefaut(cle) ==
    CASE cle = "meteo_actuelle" -> TTL_METEO
      [] cle = "previsions" -> TTL_PREVISIONS
      [] cle = "derniere_routine" -> TTL_ROUTINE

\* datetime.now().isoformat() at the minute t, and a date_cache string that
\* datetime.fromisoformat rejects.
DateCache(t) == [iso |-> TRUE, t |-> t]
DateIllisible == [iso |-> FALSE, t |-> 0]

\* The fields of the dataclass DonneesCachees.
ChampsCache == {"donnees", "date_cache", "ttl_minutes"}

\* DonneesCachees.date_cache_dt raises ValueError on such a record.
DateLeve(cache) == ~cache.date_cache.iso

\* Mutant: a record expires at the minute its ttl ends.
est_expire_a_l_echeance(cache, maintenant) ==
    maintenant >= cache.date_cache.t + cache.ttl_minutes

\* DonneesCachees.est_expire and age_minutes at the instant maintenant.
est_expire(cache, maintenant) ==
    maintenant > cache.date_cache.t + cache.ttl_minutes
age_minutes(cache, maintenant) == maintenant - cache.date_cache.t

\* A cache file is absent, holds text json.load rejects, or holds a JSON
\* object.
FichierCacheInvalide == [genre |-> "invalide"]
FichierCacheJson(data) == [genre |-> "json", data |-> data]

\* Mutant: a save over an existing record keeps the date of that record.
sauvegarder_en_gardant_la_date(fichier, donnees, ttl_minutes, maintenant) ==
    FichierCacheJson(
        [donnees |-> donnees,
         date_cache |-> IF fichier.genre = "json" /\ DOMAIN fichier.data = ChampsCache
                        THEN fichier.data.date_cache
                        ELSE DateCache(maintenant),
         ttl_minutes |-> ttl_minutes])

\* sauvegarder_meteo_actuelle / _previsions / _derniere_routine: the content
\* of the file after the call, whatever it held before.
sauvegarder(fichier, donnees, ttl_minutes, maintenant) ==
    FichierCacheJson(
        [donnees |-> donnees,
         date_cache |-> DateCache(maintenant),
         ttl_minutes |-> ttl_minutes])

\* Mutant: a load gives nothing once the record has expired.
charger_frais(fichier) ==
    IF fichier.genre = "absent" THEN Aucun
    ELSE IF fichier.genre = "invalide" THEN Aucun
    ELSE IF DOMAIN fichier.data # ChampsCache THEN Aucun
    ELSE IF est_expire(fichier.data, minute) THEN Aucun
    ELSE Quelque(fichier.data)

\* charger_meteo_actuelle / _previsions / _derniere_routine: None when the
\* file is absent, when json.load raises JSONDecodeError and when
\* DonneesCachees(**data) raises TypeError (a field missing or unknown);
\* date_cache is not looked at.
charger(fichier) ==
    IF fichier.genre = "absent" THEN Aucun
    ELSE IF fichier.genre = "invalide" THEN Aucun
    ELSE IF DOMAIN fichier.data # ChampsCache THEN Aucun
    ELSE Quelque(fichier.data)

\* Mutant: the fallback gives nothing once the record has expired.
avec_fallback_frais(fichier) ==
    LET cache == charger(fichier) IN
      IF cache = Aucun THEN <<Aucun, FALSE>>
      ELSE IF est_expire(cache[1], minute) THEN <<Aucun, FALSE>>
      ELSE <<Quelque(cache[1].donnees), TRUE>>

\* obtenir_meteo_avec_fallback / _previsions_ / _routine_.
avec_fallback(fichier) ==
    LET cache == charger(fichier) IN
      IF cache = Aucun THEN <<Aucun, FALSE>>
      ELSE <<Quelque(cache[1].donnees), TRUE>>

\* Mutant: nettoyer_cache_expire removes the expired records too.
nettoyer_un_fichier_expire(fichier, maintenant) ==
    IF fichier.genre = "absent" THEN [fichier |-> fichier, erreur |-> ""]
    ELSE IF charger(fichier) = Aucun
    THEN [fichier |-> FichierCacheAbsent, erreur |-> ""]
    ELSE IF DateLeve(charger(fichier)[1])
    THEN [fichier |-> fichier, erreur |-> "ValueError"]
    ELSE IF est_expire(charger(fichier)[1], maintenant)
    THEN [fichier |-> FichierCacheAbsent, erreur |-> ""]
    ELSE [fichier |-> fichier, erreur |-> ""]

\* One turn of the loop of nettoyer_cache_expire, lines 224-239: a file that
\* does not load is unlinked; est_expire is evaluated inside the try, whose
\* except clause does not name ValueError.
nettoyer_un_fichier(fichier, maintenant) ==
    IF fichier.genre = "absent" THEN [fichier |-> fichier, erreur |-> ""]
    ELSE IF charger(fichier) = Aucun
    THEN [fichier |-> FichierCacheAbsent, erreur |-> ""]
    ELSE IF DateLeve(charger(fichier)[1])
    THEN [fichier |-> fichier, erreur |-> "ValueError"]
    ELSE [fichier |-> fichier, erreur |-> ""]

\* nettoyer_cache_expire, lines 216-239: the files are visited in order and
\* an exception ends the loop.
RECURSIVE nettoyer_cache_expire(_, _, _)
nettoyer_cache_expire(fichiers, k, maintenant) ==
    IF k > Len(OrdreCles) THEN [fichiers |-> fichiers, erreur |-> ""]
    ELSE LET r == nettoyer_un_fichier(fichiers[OrdreCles[k]], maintenant) IN
           IF r.erreur # "" THEN [fichiers |-> fichiers, erreur |-> r.erreur]
           ELSE nettoyer_cache_expire(
                    [fichiers EXCEPT ![OrdreCles[k]] = r.fichier], k + 1, maintenant)

\* vider_cache, lines 241-251.
vider_cache(fichiers) == [c \in Cles |-> FichierCacheAbsent]

\* obtenir_etat_cache, lines 253-293: age_minutes raises ValueError on the
\* first record whose date_cache does not parse.
obtenir_etat_cache(fichiers, maintenant) ==
    IF \E c \in Cles : charger(fichiers[c]) # Aucun /\ DateLeve(charger(fichiers[c])[1])
    THEN [etat |-> Aucun, erreur |-> "ValueError"]
    ELSE [etat |-> Quelque(
             [c \in Cles |->
                LET cache == charger(fichiers[c]) IN
                  IF cache = Aucun THEN Aucun
                  ELSE Quelque([age_minutes |-> age_minutes(cache[1], maintenant),
                                expire |-> est_expire(cache[1], maintenant),
                                date_cache |-> cache[1].date_cache])]),
          erreur |-> ""]

\* ---- bounds and inputs ----

MaxMinutes == 122

\* The clock moves by a little more than the shortest default ttl.
PasCache == {TTL_METEO + 1}

\* What a save is called with: a payload with the default ttl of the
\* method, another payload with a ttl of one minute, or a ttl that ends
\* at the very minute the clock reaches next.
Sauvegardes(cle) ==
    {[donnees |-> "d1", ttl_minutes |-> TtlParDefaut(cle)],
     [donnees |-> "d2", ttl_minutes |-> 1],
     [donnees |-> "d2", ttl_minutes |-> TTL_METEO + 1]}

\* Damaged files: text that is not JSON, an object without ttl_minutes, an
\* object with a field DonneesCachees does not have, and a record whose
\* date_cache is not a date.
FichierSansTtl ==
    FichierCacheJson([donnees |-> "d1", date_cache |-> DateCache(0)])
FichierChampEnTrop ==
    FichierCacheJson([donnees |-> "d1", date_cache |-> DateCache(0),
                      ttl_minutes |-> TTL_METEO, version |-> 1])
FichierDateIllisible ==
    FichierCacheJson([donnees |-> "d1", date_cache |-> DateIllisible,
                      ttl_minutes |-> TTL_METEO])
FichiersEndommages ==
    {FichierCacheInvalide, FichierSansTtl, FichierChampEnTrop, FichierDateIllisible}

\* The cache directory at the start: empty, or with one damaged file, or
\* with a record of unreadable date next to a file that is not JSON.
DossiersInitiaux ==
    {[c \in Cles |-> FichierCacheAbsent]}
    \cup {[c \in Cles |-> IF c = OrdreCles[1] THEN f ELSE FichierCacheAbsent] :
            f \in FichiersEndommages}
    \cup {[c \in Cles |-> IF c = OrdreCles[1] THEN FichierDateIllisible
                          ELSE IF c = OrdreCles[2] THEN FichierCacheInvalide
                          ELSE FichierCacheAbsent],
          [c \in Cles |-> IF c = OrdreCles[1] THEN FichierCacheInvalide
                          ELSE IF c = OrdreCles[2] THEN FichierDateIllisible
                          ELSE FichierCacheAbsent]}

\* GestionnaireCache.__init__, lines 49-67: the object holds three paths.
InitCache ==
    /\ MoteurAuRepos
    /\ HistAuRepos
    /\ DuoAuRepos
    /\ ProduitAuRepos
    /\ AnalyseurAuRepos
    /\ minute = 0
    /\ fichiers_cache \in DossiersInitiaux
    /\ journal = [c \in Cles |-> JamaisSauve]
    /\ op_cache = "construire"
    /\ cle_cache = ""
    /\ retour_cache = Aucun
    /\ erreur_cache = ""

\* Time passes between two calls.
AvancerCache(d) ==
    /\ minute + d <= MaxMinutes
    /\ minute' = minute + d
    /\ op_cache' = "avancer"
    /\ cle_cache' = ""
    /\ retour_cache' = Aucun
    /\ erreur_cache' = ""
    /\ UNCHANGED <<fichiers_cache, journal>>
    /\ UNCHANGED horsCache

\* sauvegarder_meteo_actuelle(donnees, ttl_minutes) and its two siblings.
SauvegarderCache(cle, donnees, ttl_minutes) ==
    /\ fichiers_cache' =
         [fichiers_cache EXCEPT
            ![cle] = sauvegarder(fichiers_cache[cle], donnees, ttl_minutes, minute)]
    /\ journal' =
         [journal EXCEPT
            ![cle] = [statut |-> "sauve",
                      dernier |-> Quelque([donnees |-> donnees,
                                           date_cache |-> DateCache(minute),
                                           ttl_minutes |-> ttl_minutes]),
                      remplace |-> fichiers_cache[cle].genre # "absent"]]
    /\ op_cache' = "sauvegarder"
    /\ cle_cache' = cle
    /\ retour_cache' = Aucun
    /\ erreur_cache' = ""
    /\ UNCHANGED minute
    /\ UNCHANGED horsCache

\* charger_meteo_actuelle() and its two siblings.
ChargerCache(cle) ==
    /\ op_cache' = "charger"
    /\ cle_cache' = cle
    /\ retour_cache' = charger(fichiers_cache[cle])
    /\ erreur_cache' = ""
    /\ UNCHANGED <<minute, fichiers_cache, journal>>
    /\ UNCHANGED horsCache

\* obtenir_meteo_avec_fallback() and its two siblings.
ObtenirAvecFallback(cle) ==
    /\ op_cache' = "fallback"
    /\ cle_cache' = cle
    /\ retour_cache' = avec_fallback(fichiers_cache[cle])
    /\ erreur_cache' = ""
    /\ UNCHANGED <<minute, fichiers_cache, journal>>
    /\ UNCHANGED horsCache

\* nettoyer_cache_expire().
NettoyerCacheExpire ==
    /\ LET r == nettoyer_cache_expire(fichiers_cache, 1, minute) IN
         /\ fichiers_cache' = r.fichiers
         /\ erreur_cache' = r.erreur
    /\ op_cache' = "nettoyer"
    /\ cle_cache' = ""
    /\ retour_cache' = Aucun
    /\ UNCHANGED <<minute, journal>>
    /\ UNCHANGED horsCache

\* vider_cache().
ViderCache ==
    /\ fichiers_cache' = vider_cache(fichiers_cache)
    /\ journal' =
         [c \in Cles |->
            IF journal[c].statut = "jamais" THEN journal[c]
            ELSE [statut |-> "vide", dernier |-> Aucun, remplace |-> FALSE]]
    /\ op_cache' = "vider"
    /\ cle_cache' = ""
    /\ retour_cache' = Aucun
    /\ erreur_cache' = ""
    /\ UNCHANGED minute
    /\ UNCHANGED horsCache

\* obtenir_etat_cache().
ObtenirEtatCache ==
    /\ LET r == obtenir_etat_cache(fichiers_cache, minute) IN
         /\ retour_cache' = r.etat
         /\ erreur_cache' = r.erreur
    /\ op_cache' = "etat"
    /\ cle_cache' = ""
    /\ UNCHANGED <<minute, fichiers_cache, journal>>
    /\ UNCHANGED horsCache

NextCache ==
    \/ \E d \in PasCache : AvancerCache(d)
    \/ \E cle \in Cles : \E s \in Sauvegardes(cle) :
         SauvegarderCache(cle, s.donnees, s.ttl_minutes)
    \/ \E cle \in Cles : ChargerCache(cle)
    \/ \E cle \in Cles : ObtenirAvecFallback(cle)
    \/ NettoyerCacheExpire
    \/ ViderCache
    \/ ObtenirEtatCache

SpecCache == InitCache /\ [][NextCache]_vars

-----------------------------------------------------------------------------
(* Properties of the cache                                                 *)

\* C14: when a fallback is asked for a file that was saved and not removed
\* since, it returns the payload of the last save with True, however much
\* time has passed since that save.
C14_FallbackApresSauvegarde ==
    (op_cache = "fallback" /\ journal[cle_cache].statut = "sauve") =>
       retour_cache = <<Quelque(journal[cle_cache].dernier[1].donnees), TRUE>>

\* C14 witness: a fallback returned the saved payload after the record had
\* expired.
C14_Temoin ==
    /\ op_cache = "fallback"
    /\ journal[cle_cache].statut = "sauve"
    /\ est_expire(journal[cle_cache].dernier[1], minute)
    /\ retour_cache[2]

\* C15: a fallback returns (None, False) only for a file that no caller has
\* ever saved.
C15_NulSeulementSiJamaisSauve ==
    (op_cache = "fallback" /\ retour_cache = <<Aucun, FALSE>>) =>
       journal[cle_cache].statut = "jamais"

\* C15, amended: a fallback returns (None, False) only for a file that no
\* caller has saved since the last vider_cache, or ever; loads, state
\* reports, nettoyer_cache_expire and the passing of time never bring it
\* about.
C15_NulSeulementSansSauvegardeDepuisVidage ==
    (op_cache = "fallback" /\ retour_cache = <<Aucun, FALSE>>) =>
       journal[cle_cache].statut \in {"jamais", "vide"}

\* C15 witness: a fallback returned (None, False) for a file that had been
\* saved and then removed by vider_cache.
C15_Temoin ==
    /\ op_cache = "fallback"
    /\ retour_cache = <<Aucun, FALSE>>
    /\ journal[cle_cache].statut = "vide"

\* C16: a save leaves in its file exactly the payload and the ttl it was
\* given and the instant of the call, and leaves the other two files as
\* they were; a load of a file saved and not removed since returns the
\* record of the last save.
C16_SauvegardeEcrase ==
    /\ [][op_cache' = "sauvegarder" =>
            /\ journal'[cle_cache'].dernier[1].date_cache = DateCache(minute)
            /\ fichiers_cache'[cle_cache'] =
                 FichierCacheJson(journal'[cle_cache'].dernier[1])
            /\ \A c \in Cles \ {cle_cache'} :
                 fichiers_cache'[c] = fichiers_cache[c]]_vars
    /\ [][(op_cache' = "charger" /\ journal[cle_cache'].statut = "sauve") =>
            retour_cache' = journal[cle_cache'].dernier]_vars

\* C16 witness: a load returned the record of a save that replaced an older
\* record of the same file while another file holds an older record.
C16_Temoin ==
    /\ op_cache = "charger"
    /\ journal[cle_cache].statut = "sauve"
    /\ journal[cle_cache].remplace
    /\ retour_cache = journal[cle_cache].dernier
    /\ retour_cache[1].date_cache.t > 0
    /\ \E c \in Cles \ {cle_cache} :
         /\ journal[c].statut = "sauve"
         /\ journal[c].dernier[1].date_cache.t < retour_cache[1].date_cache.t

\* A file that holds no well-formed record: text that is not JSON, an object
\* whose fields are not those of DonneesCachees, or a date_cache that is not
\* a date.
Endommage(fichier) ==
    \/ fichier.genre = "invalide"
    \/ /\ fichier.genre = "json"
       /\ \/ DOMAIN fichier.data # ChampsCache
          \/ ~fichier.data.date_cache.iso

\* C17: no call on the cache raises, and a damaged file counts as absent: a
\* load of it returns None, a fallback (None, False), the state report has
\* None for it, and after nettoyer_cache_expire no damaged file is left.
C17_EndommageCommeAbsent ==
    /\ erreur_cache = ""
    /\ (op_cache = "charger" /\ Endommage(fichiers_cache[cle_cache])) =>
          retour_cache = Aucun
    /\ (op_cache = "fallback" /\ Endommage(fichiers_cache[cle_cache])) =>
          retour_cache = <<Aucun, FALSE>>
    /\ (op_cache = "etat" /\ erreur_cache = "") =>
          \A c \in Cles : Endommage(fichiers_cache[c]) => retour_cache[1][c] = Aucun
    /\ op_cache = "nettoyer" =>
          \A c \in Cles : ~Endommage(fichiers_cache[c])

-----------------------------------------------------------------------------
(* Two history stores on the same directory (core/historique.py)           *)

Instances == {1, 2}
Autre(i) == 3 - i

\* Mutant: the write keeps the entries of the file that the list lacks.
EcrireEnFusionnant(fichier, analyses) ==
    Sauvegarder(analyses \o
        SelectSeq(Charger(fichier),
                  LAMBDA a : \A k \in DOMAIN analyses : analyses[k] # a))

\* _sauvegarder, lines 176-183: open(fichier, "w") truncates the file, which
\* then holds the list of the writer alone.
Ecrire(fichier, analyses) == Sauvegarder(analyses)

\* The directory before the two stores open: empty, or a recent file with
\* an entry of ten days ago.
DossiersDuo ==
    {[recentes |-> FichierAbsent, archives |-> FichierAbsent],
     [recentes |-> FichierJson(<<[id |-> FormaterId(0 - 10),
                                  timestamp |-> Iso(0 - 10),
                                  contenu |-> "c0"]>>),
      archives |-> FichierAbsent]}

\* What an instance appends.  Two entries made by two calls differ at least
\* in the microseconds of their timestamp, which a clock in days does not
\* show: the content stands for that difference between the instances, and
\* an instance makes no second entry equal to one that is still somewhere.
ContenusDe(i) == IF i = 1 THEN {"c1"} ELSE {"c2"}
Presentes ==
    UNION {Elements(instances[i].recentes) \cup Elements(instances[i].archives)
             \cup ignorees[i] : i \in Instances}
      \cup Elements(Charger(fichiers_duo.recentes))
      \cup Elements(Charger(fichiers_duo.archives))

\* GestionnaireHistorique(dossier) on the directory as it is.
Ouvrir(fichiers, maintenant) ==
    LET st == Construire(fichiers.recentes, fichiers.archives, maintenant) IN
      [magasin |-> [recentes |-> st.recentes, archives |-> st.archives,
                    etape |-> "repos"],
       fichiers |-> [recentes |-> st.f_recentes, archives |-> st.f_archives]]

\* The first instance opens the directory, then the second one.
InitDuo ==
    /\ MoteurAuRepos
    /\ HistAuRepos
    /\ CacheAuRepos
    /\ ProduitAuRepos
    /\ AnalyseurAuRepos
    /\ horloge_duo = 0
    /\ \E dossier \in DossiersDuo :
         LET un == Ouvrir(dossier, 0)
             deux == Ouvrir(un.fichiers, 0)
         IN /\ instances = <<un.magasin, deux.magasin>>
            /\ fichiers_duo = deux.fichiers
    /\ ignorees = <<{}, {}>>
    /\ ecrasees = {}
    /\ op_duo = <<"construire", 2>>

\* Time passes while no call is under way.
AvancerDuo(d) ==
    /\ \A i \in Instances : instances[i].etape = "repos"
    /\ horloge_duo + d <= MaxTemps
    /\ horloge_duo' = horloge_duo + d
    /\ op_duo' = <<"avancer", 0>>
    /\ ecrasees' = {}
    /\ UNCHANGED <<fichiers_duo, instances, ignorees>>
    /\ UNCHANGED horsDuo

\* An instance is replaced by a new one, which loads the files.
RechargerPar(i) ==
    /\ instances[i].etape = "repos"
    /\ LET r == Ouvrir(fichiers_duo, horloge_duo) IN
         /\ instances' = [instances EXCEPT ![i] = r.magasin]
         /\ fichiers_duo' = r.fichiers
    /\ ignorees' = [ignorees EXCEPT ![i] = {}]
    /\ ecrasees' = {}
    /\ op_duo' = <<"construire", i>>
    /\ UNCHANGED horloge_duo
    /\ UNCHANGED horsDuo

\* ajouter_analyse of instance i, lines 245-263: the entry is made and
\* inserted, and _rotation_analyses writes both files if it archives.
DebuterAjout(i, c) ==
    /\ instances[i].etape = "repos"
    /\ Len(instances[i].recentes) + Len(instances[i].archives) < MaxAnalyses
    /\ [id |-> FormaterId(horloge_duo), timestamp |-> Iso(horloge_duo),
        contenu |-> c] \notin Presentes
    /\ LET analyse == [id |-> FormaterId(horloge_duo),
                       timestamp |-> Iso(horloge_duo),
                       contenu |-> c]
           tri == BoucleRotation(InsererEnTete(instances[i].recentes, analyse), 1,
                                 date_limite(horloge_duo),
                                 [a_archiver |-> <<>>, a_garder |-> <<>>])
       IN /\ IF tri.a_archiver # <<>>
             THEN LET archives == instances[i].archives \o tri.a_archiver IN
                    /\ instances' = [instances EXCEPT
                                       ![i] = [recentes |-> tri.a_garder,
                                               archives |-> archives,
                                               etape |-> "ecriture"]]
                    /\ fichiers_duo' =
                         [recentes |-> Ecrire(fichiers_duo.recentes, tri.a_garder),
                          archives |-> Ecrire(fichiers_duo.archives, archives)]
                    /\ ecrasees' =
                         {e \in ignorees[i] :
                            /\ e \in Elements(Charger(fichiers_duo.recentes))
                            /\ e \notin Elements(tri.a_garder)}
             ELSE /\ instances' = [instances EXCEPT
                                     ![i] = [recentes |-> tri.a_garder,
                                             archives |-> @.archives,
                                             etape |-> "ecriture"]]
                  /\ ecrasees' = {}
                  /\ UNCHANGED fichiers_duo
          /\ ignorees' = [ignorees EXCEPT ![Autre(i)] = @ \cup {analyse}]
    /\ op_duo' = <<"inserer", i>>
    /\ UNCHANGED horloge_duo
    /\ UNCHANGED horsDuo

\* ajouter_analyse of instance i, line 266: the recent file is written.
TerminerAjout(i) ==
    /\ instances[i].etape = "ecriture"
    /\ fichiers_duo' =
         [fichiers_duo EXCEPT
            !.recentes = Ecrire(fichiers_duo.recentes, instances[i].recentes)]
    /\ instances' = [instances EXCEPT ![i].etape = "repos"]
    /\ ecrasees' =
         {e \in ignorees[i] :
            /\ e \in Elements(Charger(fichiers_duo.recentes))
            /\ e \notin Elements(instances[i].recentes)}
    /\ op_duo' = <<"ajouter", i>>
    /\ UNCHANGED <<horloge_duo, ignorees>>
    /\ UNCHANGED horsDuo

NextDuo ==
    \/ \E d \in Pas : AvancerDuo(d)
    \/ \E i \in Instances : RechargerPar(i)
    \/ \E i \in Instances : \E c \in ContenusDe(i) : DebuterAjout(i, c)
    \/ \E i \in Instances : TerminerAjout(i)

SpecDuo == InitDuo /\ [][NextDuo]_vars

\* C18: when an instance completes ajouter_analyse, the recent file holds
\* exactly the list that instance has in memory, and holds none of the
\* entries the other instance appended since this one loaded the files.
C18_DernierEcrivainGagne ==
    [][\A i \in Instances :
         op_duo' = <<"ajouter", i>> =>
           /\ fichiers_duo'.recentes = Sauvegarder(instances'[i].recentes)
           /\ \A e \in ignorees'[i] :
                e \notin Elements(Charger(fichiers_duo'.recentes))]_vars

\* C18 witness: each instance appended one entry without reloading, and the
\* write that completed the second append took the entry of the other
\* instance out of the recent file.
C18_Temoin ==
    /\ op_duo[1] = "ajouter"
    /\ ecrasees # {}
    /\ ignorees[1] # {}
    /\ ignorees[2] # {}
    /\ fichiers_duo.recentes = Sauvegarder(instances[op_duo[2]].recentes)

-----------------------------------------------------------------------------
(* ProduitDerma (core/models.py and core/algorithme.py)                    *)

\* The two modules that define a ProduitDerma; the one of core/models.py
\* has the field custom_attributes.
Classes == {"algorithme", "models"}

\* The three enumerations, the same in both modules: member name and value.
ValeursEnum ==
    [Categorie |-> [CLEANSER |-> "cleanser", TREATMENT |-> "treatment",
                    MOISTURIZER |-> "moisturizer", PROTECTION |-> "protection"],
     ActiveTag |-> [ACNE |-> "acne", HYDRATION |-> "hydration", REPAIR |-> "repair"],
     MomentUtilisation |-> [MATIN |-> "matin", JOURNEE |-> "journee",
                            SOIR |-> "soir", TOUS |-> "tous"]]

\* An enumeration member, member.value, and Enum(value), which raises
\* ValueError when no member has the value.
Membre(enum, nom) == <<enum, nom>>
ValeurDe(membre) == ValeursEnum[membre[1]][membre[2]]
EnumConnait(enum, valeur) ==
    \E n \in DOMAIN ValeursEnum[enum] : ValeursEnum[enum][n] = valeur
EnumDe(enum, valeur) ==
    Membre(enum, CHOOSE n \in DOMAIN ValeursEnum[enum] : ValeursEnum[enum][n] = valeur)

\* A keyword argument that was passed, or the default of the field.
Champ(kw, k, defaut) == IF kw[k] = Aucun THEN defaut ELSE kw[k][1]

\* The dataclass __init__ with its defaults, before __post_init__.
Attributs(cl, kw) ==
    IF cl = "models"
    THEN [nom |-> kw.nom,
          category |-> kw.category,
          moment |-> Champ(kw, "moment", Membre("MomentUtilisation", "TOUS")),
          photosensitive |-> Champ(kw, "photosensitive", FALSE),
          occlusivity |-> Champ(kw, "occlusivity", 3),
          cleansing_power |-> Champ(kw, "cleansing_power", 3),
          active_tag |-> Champ(kw, "active_tag", Membre("ActiveTag", "HYDRATION")),
          custom_attributes |-> Champ(kw, "custom_attributes", <<>>)]
    ELSE [nom |-> kw.nom,
          category |-> kw.category,
          moment |-> Champ(kw, "moment", Membre("MomentUtilisation", "TOUS")),
          photosensitive |-> Champ(kw, "photosensitive", FALSE),
          occlusivity |-> Champ(kw, "occlusivity", 3),
          cleansing_power |-> Champ(kw, "cleansing_power", 3),
          active_tag |-> Champ(kw, "active_tag", Membre("ActiveTag", "HYDRATION"))]

\* ProduitDerma(**kw): the object, or the ValueError of __post_init__.
NouveauProduit(cl, kw) ==
    IF PostInit(Attributs(cl, kw))
    THEN [produit |-> Quelque(Attributs(cl, kw)), erreur |-> ""]
    ELSE [produit |-> Aucun, erreur |-> "ValueError"]

\* Mutant: vers_dict of core/models.py leaves custom_attributes out.
produit_vers_dict_sans_attributs(cl, p) ==
    [nom |-> p.nom,
     category |-> ValeurDe(p.category),
     moment |-> ValeurDe(p.moment),
     photosensitive |-> p.photosensitive,
     occlusivity |-> p.occlusivity,
     cleansing_power |-> p.cleansing_power,
     active_tag |-> ValeurDe(p.active_tag)]

\* ProduitDerma.vers_dict: core/models.py adds the key custom_attributes
\* when the map is not empty.
produit_vers_dict(cl, p) ==
    IF cl = "models" /\ DOMAIN p.custom_attributes # {}
    THEN [nom |-> p.nom,
          category |-> ValeurDe(p.category),
          moment |-> ValeurDe(p.moment),
          photosensitive |-> p.photosensitive,
          occlusivity |-> p.occlusivity,
          cleansing_power |-> p.cleansing_power,
          active_tag |-> ValeurDe(p.active_tag),
          custom_attributes |-> p.custom_attributes]
    ELSE [nom |-> p.nom,
          category |-> ValeurDe(p.category),
          moment |-> ValeurDe(p.moment),
          photosensitive |-> p.photosensitive,
          occlusivity |-> p.occlusivity,
          cleansing_power |-> p.cleansing_power,
          active_tag |-> ValeurDe(p.active_tag)]

\* ProduitDerma.depuis_dict: data["nom"] and data["category"] raise KeyError,
\* the three Enum calls raise ValueError, then the constructor runs.
produit_depuis_dict(cl, data) ==
    IF "nom" \notin DOMAIN data \/ "category" \notin DOMAIN data
    THEN [produit |-> Aucun, erreur |-> "KeyError"]
    ELSE IF \/ ~EnumConnait("Categorie", data.category)
            \/ ~EnumConnait("MomentUtilisation", Get(data, "moment", "tous"))
            \/ ~EnumConnait("ActiveTag", Get(data, "active_tag", "hydration"))
    THEN [produit |-> Aucun, erreur |-> "ValueError"]
    ELSE NouveauProduit(cl,
           [nom |-> data.nom,
            category |-> EnumDe("Categorie", data.category),
            moment |-> Quelque(EnumDe("MomentUtilisation", Get(data, "moment", "tous"))),
            photosensitive |-> Quelque(Get(data, "photosensitive", FALSE)),
            occlusivity |-> Quelque(Get(data, "occlusivity", 3)),
            cleansing_power |-> Quelque(Get(data, "cleansing_power", 3)),
            active_tag |-> Quelque(EnumDe("ActiveTag", Get(data, "active_tag", "hydration"))),
            custom_attributes |->
                IF cl = "models" THEN Quelque(Get(data, "custom_attributes", <<>>))
                ELSE Aucun])

\* ---- inputs ----

\* Ratings below, at both ends of and above the range 1..5.
NotesEssayees == {0, 1, 5, 6}

\* Custom attribute maps: the empty one and one with an entry.
AttributsEssayes == {<<>>, [spf |-> 30]}

\* Keyword arguments of ProduitDerma(...): each optional one is left out or
\* passed; custom_attributes exists in core/models.py only.
Arguments(cl) ==
    [nom : {"Serum"},
     category : {Membre("Categorie", "TREATMENT"), Membre("Categorie", "CLEANSER")},
     moment : {Aucun, Quelque(Membre("MomentUtilisation", "SOIR"))},
     photosensitive : {Aucun, Quelque(TRUE)},
     occlusivity : {Aucun} \cup {Quelque(n) : n \in NotesEssayees},
     cleansing_power : {Aucun} \cup {Quelque(n) : n \in NotesEssayees},
     active_tag : {Aucun, Quelque(Membre("ActiveTag", "ACNE"))},
     custom_attributes :
        IF cl = "models" THEN {Aucun} \cup {Quelque(a) : a \in AttributsEssayes}
        ELSE {Aucun}]

\* Dictionaries read from a product file: complete ones with each pair of
\* ratings, one with the required keys alone, one without nom, one with a
\* category no member has.
DictsLus ==
    {[nom |-> "Serum", category |-> "treatment", moment |-> "soir",
      photosensitive |-> TRUE, occlusivity |-> o, cleansing_power |-> c,
      active_tag |-> "acne"] : o \in NotesEssayees, c \in NotesEssayees}
    \cup {[nom |-> "Serum", category |-> "treatment", occlusivity |-> o] :
            o \in NotesEssayees}
    \cup {[nom |-> "Serum", category |-> "treatment"],
          [category |-> "treatment", occlusivity |-> 6],
          [nom |-> "Serum", category |-> "soin", cleansing_power |-> 0]}

\* Nothing has been made yet.
InitProduit ==
    /\ MoteurAuRepos
    /\ HistAuRepos
    /\ CacheAuRepos
    /\ DuoAuRepos
    /\ ProduitAuRepos
    /\ AnalyseurAuRepos

\* ProduitDerma(nom=..., category=..., ...)
ConstruireProduit(cl, kw) ==
    /\ classe' = cl
    /\ entree' = kw
    /\ produit' = NouveauProduit(cl, kw).produit
    /\ erreur_produit' = NouveauProduit(cl, kw).erreur
    /\ dict_produit' = Aucun
    /\ relu' = Aucun
    /\ op_produit' = "construire"
    /\ UNCHANGED horsProduit

\* ProduitDerma.depuis_dict(data) on a dictionary read from a file.
LireProduit(cl, data) ==
    /\ classe' = cl
    /\ entree' = data
    /\ produit' = produit_depuis_dict(cl, data).produit
    /\ erreur_produit' = produit_depuis_dict(cl, data).erreur
    /\ dict_produit' = Aucun
    /\ relu' = Aucun
    /\ op_produit' = "lire"
    /\ UNCHANGED horsProduit

\* produit.vers_dict()
ProduitVersDict ==
    /\ produit # Aucun
    /\ dict_produit' = Quelque(produit_vers_dict(classe, produit[1]))
    /\ relu' = Aucun
    /\ erreur_produit' = ""
    /\ op_produit' = "vers_dict"
    /\ UNCHANGED <<classe, entree, produit>>
    /\ UNCHANGED horsProduit

\* ProduitDerma.depuis_dict(produit.vers_dict())
ProduitDepuisDict ==
    /\ dict_produit # Aucun
    /\ relu' = produit_depuis_dict(classe, dict_produit[1]).produit
    /\ erreur_produit' = produit_depuis_dict(classe, dict_produit[1]).erreur
    /\ op_produit' = "depuis_dict"
    /\ UNCHANGED <<classe, entree, produit, dict_produit>>
    /\ UNCHANGED horsProduit

NextProduit ==
    \/ \E cl \in Classes : \E kw \in Arguments(cl) : ConstruireProduit(cl, kw)
    \/ \E cl \in Classes : \E data \in DictsLus : LireProduit(cl, data)
    \/ ProduitVersDict
    \/ ProduitDepuisDict

SpecProduit == InitProduit /\ [][NextProduit]_vars

\* The ratings a call was given: the arguments passed to the constructor,
\* or the keys of the dictionary, 3 standing for what was left out.
NotesDonnees ==
    IF op_produit = "construire"
    THEN {Champ(entree, "occlusivity", 3), Champ(entree, "cleansing_power", 3)}
    ELSE {Get(entree, "occlusivity", 3), Get(entree, "cleansing_power", 3)}

\* C19: a construction or a depuis_dict given an occlusivity or a
\* cleansing_power outside 1..5 raises and makes no object, and every
\* product made by either has both ratings in 1..5.
C19_NotesHorsBornes ==
    /\ (op_produit \in {"construire", "lire"} /\ NotesDonnees \ (1..5) # {}) =>
          (produit = Aucun /\ erreur_produit # "")
    /\ produit # Aucun => (produit[1].occlusivity \in 1..5
                           /\ produit[1].cleansing_power \in 1..5)
    /\ relu # Aucun => (relu[1].occlusivity \in 1..5
                        /\ relu[1].cleansing_power \in 1..5)

\* C19 witness: a construction given a cleansing_power of 6 and a valid
\* occlusivity raised ValueError and made no object.
C19_Temoin ==
    /\ op_produit = "construire"
    /\ Champ(entree, "cleansing_power", 3) = 6
    /\ Champ(entree, "occlusivity", 3) \in 1..5
    /\ produit = Aucun
    /\ erreur_produit = "ValueError"

\* C20: depuis_dict applied to the vers_dict of a product does not raise and
\* gives a product equal to it in every field, in both modules.
C20_AllerRetour ==
    op_produit = "depuis_dict" => (erreur_produit = "" /\ relu = produit)

\* C20 witness: the round trip of a core/models.py product whose
\* custom_attributes is empty, with no field at its default, gave it back.
C20_Temoin ==
    /\ op_produit = "depuis_dict"
    /\ classe = "models"
    /\ relu = produit
    /\ produit[1].custom_attributes = <<>>
    /\ "custom_attributes" \notin DOMAIN dict_produit[1]
    /\ produit[1].moment = Membre("MomentUtilisation", "SOIR")
    /\ produit[1].occlusivity = 5

-----------------------------------------------------------------------------
(* Further properties of the decision engine                               *)

\* C21: when uv_index > 3 no photosensitive product is in the morning bucket
\* or in the midday bucket, whatever its moment tag.
C21_PhotosensibleSeulementLeSoir ==
    (Analysee /\ UVEleve) =>
       \A i \in Indices :
          P(i).photosensitive =>
             /\ ~Dans(resultat.matin.produits, i)
             /\ ~Dans(resultat.journee.produits, i)

\* The cleansers that are left after the UV and the humidity stages.
NettoyantsRestants ==
    {i \in Indices : Dans(apres_texture, i) /\ P(i).category = "cleanser"}

\* C22: when pm2_5 > 25 the optimal cleanser is None exactly when no
\* cleanser is left after the UV and humidity stages; otherwise it is one of
\* the cleansers left, none of them has a higher cleansing_power, and those
\* of equal cleansing_power come after it in the working set.
C22_MeilleurNettoyant ==
    (Analysee /\ Pollue) =>
       LET opt == resultat.matin.nettoyant_optimal IN
         /\ opt = Aucun <=> NettoyantsRestants = {}
         /\ opt # Aucun =>
              /\ opt[1] \in NettoyantsRestants
              /\ \A j \in NettoyantsRestants :
                   /\ P(j).cleansing_power <= P(opt[1]).cleansing_power
                   /\ P(j).cleansing_power = P(opt[1]).cleansing_power =>
                        Position(apres_texture, opt[1]) <= Position(apres_texture, j)

\* C22 witness: pm2_5 > 25 and humidity < 45, two cleansers of equal
\* cleansing_power, and the optimal one is the second of the catalog, which
\* the sort by occlusivity put first.
C22_Temoin ==
    /\ Analysee /\ Pollue /\ Sec
    /\ Cardinality(NettoyantsRestants) = 2
    /\ P(1).cleansing_power = P(2).cleansing_power
    /\ resultat.matin.nettoyant_optimal = Quelque(2)
    /\ apres_texture[1] = 2

\* What each descriptor of filtres_appliques starts and ends with.
Prefixes == [k \in DOMAIN resultat.filtres_appliques |-> resultat.filtres_appliques[k][1]]
Suffixes == [k \in DOMAIN resultat.filtres_appliques |-> resultat.filtres_appliques[k][3]]

\* C23: filtres_appliques holds, in this order, the UV descriptor if and
\* only if uv_index > 3, one humidity descriptor if and only if humidity < 45
\* or humidity > 70 (the one of the side that was crossed), and the
\* pollution descriptor if and only if pm2_5 is not None and > 25; each
\* descriptor carries the reading.
C23_TraceOrdonnee ==
    Analysee =>
      /\ Prefixes = (IF UVEleve THEN <<"UV=">> ELSE <<>>)
                      \o (IF Sec \/ Humide THEN <<"H=">> ELSE <<>>)
                      \o (IF Pollue THEN <<"PM2.5=">> ELSE <<>>)
      /\ \A k \in DOMAIN Prefixes :
           /\ Prefixes[k] = "UV=" =>
                resultat.filtres_appliques[k][2] = conditions.indice_uv
           /\ Prefixes[k] = "H=" =>
                /\ resultat.filtres_appliques[k][2] = conditions.humidite
                /\ Suffixes[k] = (IF Sec THEN "% < 45%" ELSE "% > 70%")
           /\ Prefixes[k] = "PM2.5=" =>
                resultat.filtres_appliques[k][2] = conditions.pm2_5[1]

\* C23 witness: uv_index > 3, humidity < 45 and pm2_5 > 25 gave the three
\* descriptors.
C23_Temoin ==
    /\ Analysee /\ UVEleve /\ Sec /\ Pollue
    /\ Prefixes = <<"UV=", "H=", "PM2.5=">>

-----------------------------------------------------------------------------
(* Further properties of the history store                                 *)

\* The recent list a rotation works on: the list the operation started
\* from, behind the new entry when the operation is an append.
RecentesATrier ==
    IF op' = "ajouter" THEN <<retour'>> \o RecentesAvant ELSE RecentesAvant

\* C24: a construction, an append or a forced rotation leaves the entries
\* already archived at their positions, puts the entries it moves behind
\* them in the order they had in the recent list, and leaves the entries it
\* keeps in the recent list in their order.
C24_RotationGardeLOrdre ==
    [][op' \in {"construire", "ajouter", "rotation"} =>
         /\ SubSeq(analyses_archives', 1, Len(ArchivesAvant)) = ArchivesAvant
         /\ Deplacees =
              SelectSeq(RecentesATrier,
                        LAMBDA a : a.timestamp.iso /\ a.timestamp.t < horloge - 14)
         /\ analyses_recentes' =
              SelectSeq(RecentesATrier,
                        LAMBDA a : ~(a.timestamp.iso /\ a.timestamp.t < horloge - 14))]_vars

\* C24 witness: a forced rotation moved two different entries behind an
\* entry that was archived before.
C24_Temoin ==
    /\ op = "rotation"
    /\ retour = 2
    /\ Len(analyses_archives) = 3
    /\ analyses_archives[2] # analyses_archives[3]

(***************************************************************************)
(* AnalyseurDerma (src/core/analyseur.py)                                  *)
(*                                                                         *)
(* The orchestrator reads the three most recent history entries, hands    *)
(* them to the LLM client with the rest of the context, and records the   *)
(* reply in the history unless the reply carries the key "erreur".  The   *)
(* history collaborator is known to the orchestrator by two methods only, *)
(* obtenir_recents and ajouter; the reply of the LLM client is any of the *)
(* dictionaries ClientGemini.analyser_routine returns.                    *)
(***************************************************************************)

\* The number of analyser calls explored.
MaxAppels == 4

\* EntreeHistorique(id=..., date=..., mode=..., ...)
EntreeHistorique(id, date, mode, res) ==
    [id |-> id, date |-> date, mode |-> mode,
     resume_ia |-> Get(res, "resume", ""),
     routine_matin |-> Get(res, "routine_matin", <<>>),
     routine_soir |-> Get(res, "routine_soir", <<>>),
     alertes |-> Get(res, "alertes", <<>>),
     conseils_jour |-> Get(res, "conseils_jour", ""),
     activites_jour |-> Get(res, "activites_jour", <<>>)]

\* historique.obtenir_recents(n): the n most recent entries, a copy.
obtenir_recents(h, n) == SubSeq(h, 1, IF n < Len(h) THEN n ELSE Len(h))

\* historique.ajouter(entree): the entry goes to the head of the list.
ajouter(h, e) == <<e>> \o h

\* The dictionaries ClientGemini.analyser_routine returns: the two it
\* builds when the call or the parsing fails, and on success the five
\* fields of the model's answer, each with its default when the answer
\* lacks it.
ReponsesIA ==
    {[erreur |-> "Pas de reponse de Gemini", routine_matin |-> <<>>,
      routine_soir |-> <<>>, alertes |-> <<>>, conseils_jour |-> "",
      resume |-> ""],
     [erreur |-> "Impossible de parser la reponse IA", routine_matin |-> <<>>,
      routine_soir |-> <<>>, alertes |-> <<>>, conseils_jour |-> "",
      resume |-> ""],
     [routine_matin |-> <<"Serum">>, routine_soir |-> <<"Creme">>,
      alertes |-> <<"UV eleve">>, conseils_jour |-> "Boire de l'eau",
      resume |-> "Routine legere"],
     [routine_matin |-> <<>>, routine_soir |-> <<>>, alertes |-> <<>>,
      conseils_jour |-> "", resume |-> ""]}

Modes == {"rapide", "detaille"}

\* AnalyseurDerma.analyser, lines 68-101, reading the history after the
\* entry has been recorded.
analyser_lisant_apres(h, numero, mode, reponse) ==
    LET suite == IF "erreur" \notin DOMAIN reponse
                 THEN ajouter(h, EntreeHistorique(<<numero>>, numero, mode, reponse))
                 ELSE h
    IN  [historique_recent |-> obtenir_recents(suite, 3),
         historique |-> suite,
         resultat |-> reponse]

\* AnalyseurDerma.analyser, lines 68-101.  numero stands for str(uuid4())
\* and datetime.now().isoformat(), both new at each call; reponse is what
\* analyser_routine answers to the context it is given.
analyser(h, numero, mode, reponse) ==
    LET recent == obtenir_recents(h, 3)
    IN  [historique_recent |-> recent,
         historique |-> IF "erreur" \notin DOMAIN reponse
                        THEN ajouter(h, EntreeHistorique(<<numero>>, numero, mode, reponse))
                        ELSE h,
         resultat |-> reponse]

InitAnalyseur ==
    /\ MoteurAuRepos
    /\ HistAuRepos
    /\ CacheAuRepos
    /\ DuoAuRepos
    /\ ProduitAuRepos
    /\ AnalyseurAuRepos

AnalyserIA(mode, reponse) ==
    /\ appels_ia < MaxAppels
    /\ LET a == analyser(historique, appels_ia + 1, mode, reponse)
       IN  /\ historique' = a.historique
           /\ historique_recent' = a.historique_recent
           /\ resultat_ia' = Quelque(a.resultat)
    /\ appels_ia' = appels_ia + 1
    /\ mode_ia' = mode
    /\ op_ia' = "analyser"
    /\ UNCHANGED horsAnalyseur

NextAnalyseur == \E mode \in Modes, reponse \in ReponsesIA : AnalyserIA(mode, reponse)

SpecAnalyseur == InitAnalyseur /\ [][NextAnalyseur]_vars

(* Properties of the orchestrator *)

\* h without its i-th entry.
SansLa(h, i) == SubSeq(h, 1, i - 1) \o SubSeq(h, i + 1, Len(h))

Enregistre(c) == charger(fichiers_cache[c])
EnregistreApres(c) == charger(fichiers_cache'[c])

\* C26: the record of a save (ttl >= 0) is not expired at the instant of
\* the save; a state report gives, for each file saved and not removed
\* since, the date of the save, the minutes elapsed since, and an expired
\* flag that is true exactly when now > date of the save + ttl, so false when
\* now = date of the save + ttl; and a record that is expired stays expired
\* as long as no save is made to its file.
C26_ExpireApresLeTtl ==
    /\ [](op_cache = "sauvegarder" =>
            /\ Enregistre(cle_cache) # Aucun
            /\ Enregistre(cle_cache)[1].ttl_minutes >= 0
            /\ ~est_expire(Enregistre(cle_cache)[1], minute))
    /\ []((op_cache = "etat" /\ erreur_cache = "") =>
            \A c \in Cles : journal[c].statut = "sauve" =>
               LET s == journal[c].dernier[1] IN
                 retour_cache[1][c] =
                    Quelque([age_minutes |-> minute - s.date_cache.t,
                             expire |-> minute > s.date_cache.t + s.ttl_minutes,
                             date_cache |-> s.date_cache]))
    /\ [][\A c \in Cles :
            (/\ journal[c].statut = "sauve"
             /\ est_expire(Enregistre(c)[1], minute)
             /\ ~(op_cache' = "sauvegarder" /\ cle_cache' = c)
             /\ EnregistreApres(c) # Aucun)
            => est_expire(EnregistreApres(c)[1], minute')]_vars

\* C26 witness: a state report made at the very minute a record's ttl ends
\* gives it as not expired, next to a record whose ttl has ended before.
C26_Temoin ==
    /\ op_cache = "etat"
    /\ erreur_cache = ""
    /\ \E c \in Cles :
         /\ journal[c].statut = "sauve"
         /\ journal[c].dernier[1].ttl_minutes > 1
         /\ minute = journal[c].dernier[1].date_cache.t + journal[c].dernier[1].ttl_minutes
         /\ ~retour_cache[1][c][1].expire
    /\ \E c \in Cles :
         /\ journal[c].statut = "sauve"
         /\ retour_cache[1][c][1].expire
         /\ retour_cache[1][c][1].age_minutes = journal[c].dernier[1].ttl_minutes + 1

C28_ExcluOuRestant ==
    /\ [](Analysee =>
            /\ SansDoublon(resultat.produits_exclus)
            /\ SansDoublon(apres_texture)
            /\ \A i \in Indices :
                  /\ Dans(resultat.produits_exclus, i) # Dans(apres_texture, i)
                  /\ Dans(resultat.produits_exclus, i) =>
                        /\ P(i).nom \in DOMAIN resultat.raisons_exclusion
                        /\ ~DansUnPanier(i)
            /\ \A b \in 1..3 : \A k \in DOMAIN Paniers[b] :
                  /\ Paniers[b][k] \in Indices
                  /\ Dans(apres_texture, Paniers[b][k]))
    /\ [][etape' = "analyse" => produits_originaux' = produits_originaux]_vars

\* C28 witness: of two products of the same name, one has been excluded at
\* the UV stage and the other is in a bucket.
C28_Temoin ==
    /\ Analysee
    /\ Len(produits_originaux) = 2
    /\ P(1).nom = P(2).nom
    /\ Dans(resultat.produits_exclus, 1)
    /\ DansUnPanier(2)
    /\ resultat.raisons_exclusion[P(1).nom] = RAISON_UV

(* Further properties of the history store, continued *)

\* Both files are absent or hold a JSON array of objects.
BienFormes ==
    /\ fichier_recentes.genre \in {"absent", "liste"}
    /\ fichier_archives.genre \in {"absent", "liste"}

\* The store a new GestionnaireHistorique makes of the files now.
NouveauMagasin == Construire(fichier_recentes, fichier_archives, horloge)

OperationsDuMagasin == {"construire", "ajouter", "supprimer", "vider", "rotation"}

\* C29: with well-formed files, after the construction and after each
\* ajouter_analyse, supprimer_analyse, vider_archives or forcer_rotation,
\* each file holds the list the store has in memory, and a store
\* constructed then on the same files has the same two lists.
C29_NouveauMagasinIdentique ==
    (Ouvert /\ BienFormes /\ op \in OperationsDuMagasin) =>
       /\ Charger(fichier_recentes) = analyses_recentes
       /\ Charger(fichier_archives) = analyses_archives
       /\ NouveauMagasin.recentes = analyses_recentes
       /\ NouveauMagasin.archives = analyses_archives

\* C29, amended: with well-formed files, after the construction and after
\* each operation each file holds the list the store has in memory; a store
\* constructed then on the same files has the two lists that
\* _rotation_analyses makes of the lists in memory, which are the lists in
\* memory themselves after a construction, an ajouter_analyse or a
\* forcer_rotation.
C29_FichiersEgalentMemoire ==
    (Ouvert /\ BienFormes) =>
       /\ Charger(fichier_recentes) = analyses_recentes
       /\ Charger(fichier_archives) = analyses_archives
       /\ NouveauMagasin.recentes = Rotation(Etat, horloge).recentes
       /\ NouveauMagasin.archives = Rotation(Etat, horloge).archives
       /\ op \in {"construire", "ajouter", "rotation"} =>
             /\ NouveauMagasin.recentes = analyses_recentes
             /\ NouveauMagasin.archives = analyses_archives

\* C29 witness: vider_archives has emptied the archive while an entry of
\* analyses_recentes had left the window; the files hold the lists in
\* memory, and a store constructed now would archive that entry.
C29_Temoin ==
    /\ op = "vider"
    /\ BienFormes
    /\ retour > 0
    /\ Charger(fichier_recentes) = analyses_recentes
    /\ Charger(fichier_archives) = analyses_archives
    /\ analyses_archives = <<>>
    /\ NouveauMagasin.archives # <<>>
    /\ \E k \in DOMAIN analyses_recentes : analyses_recentes[k].timestamp.iso

\* The entries of the store before and after a step, recent ones first.
ToutesAvant == analyses_recentes \o analyses_archives
ToutesApres == analyses_recentes' \o analyses_archives'
UnSi(b) == IF b THEN 1 ELSE 0

\* C30: no operation puts into analyses_recentes an entry other than the
\* one ajouter_analyse makes, so none comes back from the archive; a
\* construction, an ajouter_analyse or a forcer_rotation keeps every entry
\* the store held, in one list or the other, so the total does not go down
\* and entries leave only by supprimer_analyse or vider_archives; and
\* forcer_rotation returns the number of entries it moved from
\* analyses_recentes to the archive.
C30_SensUnique ==
    [][(Ouvert /\ op' \in OperationsDuMagasin) =>
        /\ \A a \in Elements(analyses_recentes') :
              Occurrences(analyses_recentes', a) <=
                 Occurrences(analyses_recentes, a) + UnSi(a \in Nouvelles)
        /\ op' \in {"construire", "ajouter", "rotation"} =>
              /\ \A a \in Elements(ToutesAvant) \cup Nouvelles :
                    Occurrences(ToutesApres, a) =
                       Occurrences(ToutesAvant, a) + UnSi(a \in Nouvelles)
              /\ Len(ToutesApres) >= Len(ToutesAvant)
        /\ op' \in {"supprimer", "vider"} =>
              \A a \in Elements(ToutesApres) :
                 Occurrences(ToutesApres, a) <= Occurrences(ToutesAvant, a)
        /\ op' = "rotation" =>
              /\ retour' = Len(analyses_recentes) - Len(analyses_recentes')
              /\ retour' = Len(analyses_archives') - Len(analyses_archives)
              /\ SubSeq(analyses_archives', 1, Len(analyses_archives)) = analyses_archives
    ]_vars

\* C30 witness: forcer_rotation has moved one entry to an archive that held
\* one already, and one entry stays in analyses_recentes.
C30_Temoin ==
    /\ op = "rotation"
    /\ retour = 1
    /\ Len(analyses_archives) = 2
    /\ Len(analyses_recentes) = 1

=============================================================================
